---- MODULE Spec2Model ----
(***************************************************************************)
(* A model of the expense tracker's server: the receipt parser, the        *)
(* categorizer, the anomaly detector and the /api/expenses routes.         *)
(*                                                                         *)
(* Strings that the code inspects character by character are sequences of  *)
(* one-character strings.  Amounts are integers in hundredths of the       *)
(* currency unit, so that 45.00 is 4500; the arithmetic on them is exact   *)
(* rational arithmetic (IEEE rounding is not modelled).                    *)
(***************************************************************************)
EXTENDS Integers, Sequences, FiniteSets, TLC

VARIABLES
    store,      \* the expenses collection: _id -> document
    nextId,     \* the next fresh _id
    now,        \* Date.now(), in days
    resp,       \* what the last request did and answered
    catIn,      \* the arguments given to categorize
    catOut,     \* what categorize returned
    rawText,    \* the text extracted from a receipt
    parsed,     \* what parseReceiptData returned
    ml,         \* a direct call of detectAnomalies or forecastExpenses
    ocrService,        \* the OCR service: its worker and the uploads in progress
    client      \* the browser client: its expenses list and restore timers

vars ==
    <<store, nextId, now, resp, catIn, catOut, rawText, parsed, ml, ocrService,
      client>>

(***************************************************************************)
(* Numbers.  A JavaScript number is modelled as NaN, +Infinity or an exact *)
(* rational n/d in lowest terms with d > 0.                                *)
(***************************************************************************)
RECURSIVE Gcd(_, _)
Gcd(a, b) == IF b = 0 THEN a ELSE Gcd(b, a % b)

Abs(x) == IF x < 0 THEN -x ELSE x

NaN == [kind |-> "NaN", n |-> 0, d |-> 1]

Infinity == [kind |-> "Infinity", n |-> 1, d |-> 1]

Rat(n, d) ==
    LET g == Gcd(Abs(n), d)
    IN  [kind |-> "finite", n |-> n \div g, d |-> d \div g]

IsFinite(x) == x.kind = "finite"

\* x + y, x > y, x < y and Math.min on numbers that are finite or NaN
NumAdd(x, y) ==
    IF x.kind = "NaN" \/ y.kind = "NaN" THEN NaN
    ELSE Rat(x.n * y.d + y.n * x.d, x.d * y.d)

NumGreater(x, y) ==
    /\ x.kind = "finite"
    /\ y.kind = "finite"
    /\ x.n * y.d > y.n * x.d

NumLess(x, y) == NumGreater(y, x)

NumMin(x, y) ==
    IF x.kind = "NaN" \/ y.kind = "NaN" THEN NaN
    ELSE IF NumLess(y, x) THEN y ELSE x

Cents(units) == units * 100

(***************************************************************************)
(* Characters.                                                             *)
(***************************************************************************)
LowerLetters ==
    <<"a","b","c","d","e","f","g","h","i","j","k","l","m",
      "n","o","p","q","r","s","t","u","v","w","x","y","z">>

UpperLetters ==
    <<"A","B","C","D","E","F","G","H","I","J","K","L","M",
      "N","O","P","Q","R","S","T","U","V","W","X","Y","Z">>

Digits == {"0","1","2","3","4","5","6","7","8","9"}

Range(s) == {s[i] : i \in DOMAIN s}

\* String.prototype.toLowerCase, one character at a time
LowerChar(c) ==
    IF \E i \in DOMAIN UpperLetters : UpperLetters[i] = c
    THEN LowerLetters[CHOOSE i \in DOMAIN UpperLetters : UpperLetters[i] = c]
    ELSE c

\* the text as it is written
KeepCase(s) == s

toLowerCase(s) == [i \in DOMAIN s |-> LowerChar(s[i])]

\* the class \w of a regular expression
IsWordChar(c) == c \in Range(LowerLetters) \cup Range(UpperLetters) \cup Digits \cup {"_"}

\* s.split(/\W+/): the pieces between the maximal runs of non-word
\* characters, the empty pieces at either end included
RECURSIVE SplitFrom(_, _, _, _)
SplitFrom(s, i, word, inRun) ==
    IF i > Len(s) THEN IF inRun THEN <<"">> ELSE <<word>>
    ELSE IF IsWordChar(s[i])
         THEN SplitFrom(s, i + 1, IF inRun THEN <<s[i]>> ELSE Append(word, s[i]), FALSE)
         ELSE IF inRun THEN SplitFrom(s, i + 1, word, TRUE)
              ELSE <<word>> \o SplitFrom(s, i + 1, <<>>, TRUE)

split(s) == SplitFrom(s, 1, <<>>, FALSE)

SelectLonger(ws, n) == SelectSeq(ws, LAMBDA w : Len(w) > n)

(***************************************************************************)
(* ExpenseCategorizer.                                                     *)
(***************************************************************************)
\* the closed set of categories, in the order of the keyword table
CategoryOrder ==
    <<"food", "transport", "utilities", "entertainment",
      "shopping", "healthcare", "education", "other">>

CategoryEnum == Range(CategoryOrder)

\* this.categories
categories(category) ==
    CASE category = "food" ->
        <<<<"r","e","s","t","a","u","r","a","n","t">>,
         <<"c","a","f","e">>,
         <<"f","o","o","d">>,
         <<"d","i","n","i","n","g">>,
         <<"l","u","n","c","h">>,
         <<"d","i","n","n","e","r">>,
         <<"b","r","e","a","k","f","a","s","t">>,
         <<"c","o","f","f","e","e">>,
         <<"p","i","z","z","a">>,
         <<"b","u","r","g","e","r">>,
         <<"s","u","s","h","i">>,
         <<"c","h","i","n","e","s","e">>,
         <<"i","n","d","i","a","n">>,
         <<"m","e","x","i","c","a","n">>,
         <<"g","r","o","c","e","r","y">>,
         <<"s","u","p","e","r","m","a","r","k","e","t">>,
         <<"m","a","r","k","e","t">>>>
      [] category = "transport" ->
        <<<<"u","b","e","r">>,
         <<"l","y","f","t">>,
         <<"t","a","x","i">>,
         <<"g","a","s">>,
         <<"f","u","e","l">>,
         <<"p","a","r","k","i","n","g">>,
         <<"m","e","t","r","o">>,
         <<"b","u","s">>,
         <<"t","r","a","i","n">>,
         <<"f","l","i","g","h","t">>,
         <<"a","i","r","l","i","n","e">>,
         <<"c","a","r">>,
         <<"v","e","h","i","c","l","e">>,
         <<"t","r","a","n","s","p","o","r","t","a","t","i","o","n">>>>
      [] category = "utilities" ->
        <<<<"e","l","e","c","t","r","i","c">>,
         <<"w","a","t","e","r">>,
         <<"g","a","s">>,
         <<"i","n","t","e","r","n","e","t">>,
         <<"p","h","o","n","e">>,
         <<"c","a","b","l","e">>,
         <<"u","t","i","l","i","t","y">>,
         <<"b","i","l","l">>,
         <<"p","a","y","m","e","n","t">>,
         <<"s","e","r","v","i","c","e">>>>
      [] category = "entertainment" ->
        <<<<"m","o","v","i","e">>,
         <<"c","i","n","e","m","a">>,
         <<"t","h","e","a","t","e","r">>,
         <<"c","o","n","c","e","r","t">>,
         <<"s","h","o","w">>,
         <<"g","a","m","e">>,
         <<"g","a","m","i","n","g">>,
         <<"n","e","t","f","l","i","x">>,
         <<"s","p","o","t","i","f","y">>,
         <<"s","u","b","s","c","r","i","p","t","i","o","n">>,
         <<"e","n","t","e","r","t","a","i","n","m","e","n","t">>,
         <<"f","u","n">>>>
      [] category = "shopping" ->
        <<<<"a","m","a","z","o","n">>,
         <<"s","t","o","r","e">>,
         <<"s","h","o","p">>,
         <<"m","a","l","l">>,
         <<"c","l","o","t","h","i","n","g">>,
         <<"c","l","o","t","h","e","s">>,
         <<"s","h","o","e","s">>,
         <<"e","l","e","c","t","r","o","n","i","c","s">>,
         <<"b","o","o","k">>,
         <<"p","u","r","c","h","a","s","e">>,
         <<"b","u","y">>>>
      [] category = "healthcare" ->
        <<<<"d","o","c","t","o","r">>,
         <<"h","o","s","p","i","t","a","l">>,
         <<"c","l","i","n","i","c">>,
         <<"p","h","a","r","m","a","c","y">>,
         <<"m","e","d","i","c","i","n","e">>,
         <<"m","e","d","i","c","a","l">>,
         <<"h","e","a","l","t","h">>,
         <<"d","e","n","t","a","l">>,
         <<"v","i","s","i","o","n">>,
         <<"i","n","s","u","r","a","n","c","e">>>>
      [] category = "education" ->
        <<<<"s","c","h","o","o","l">>,
         <<"u","n","i","v","e","r","s","i","t","y">>,
         <<"c","o","l","l","e","g","e">>,
         <<"c","o","u","r","s","e">>,
         <<"b","o","o","k">>,
         <<"e","d","u","c","a","t","i","o","n">>,
         <<"l","e","a","r","n","i","n","g">>,
         <<"t","u","i","t","i","o","n">>,
         <<"s","t","u","d","e","n","t">>>>
      [] OTHER -> <<>>

\* the number of elements of ws that satisfy Test
RECURSIVE CountMatching(_, _)
CountMatching(ws, keywords) ==
    IF ws = <<>> THEN 0
    ELSE (IF Head(ws) \in Range(keywords) THEN 1 ELSE 0)
         + CountMatching(Tail(ws), keywords)

\* calculateTFIDF(text, category): score / words.length, which is 0/0 = NaN
\* when the text has no word longer than 2 characters
calculateTFIDF(text, category) ==
    LET words == SelectLonger(split(toLowerCase(text)), 2)
        score == CountMatching(words, categories(category))
    IN  IF Len(words) = 0 THEN NaN ELSE Rat(score, Len(words))

\* the amount-based heuristics added to a category's score
AmountBonus(category, amount) ==
    IF \/ category = "food" /\ amount < Cents(100)
       \/ category = "transport" /\ amount < Cents(50)
       \/ category = "utilities" /\ amount > Cents(50)
    THEN Rat(1, 10)
    ELSE Rat(0, 1)

CategoryScore(text, category, amount) ==
    NumAdd(calculateTFIDF(text, category), AmountBonus(category, amount))

\* a comparison that lets a later category with the same score win
BeatsOrTies(score, bestScore) == ~NumLess(score, bestScore)

\* score > bestScore
Beats(score, bestScore) == NumGreater(score, bestScore)

\* the loop over Object.entries(this.categories): best is
\* [category, score] after the first i - 1 entries
RECURSIVE BestFrom(_, _, _, _)
BestFrom(text, amount, i, best) ==
    IF i > Len(CategoryOrder) THEN best
    ELSE IF CategoryOrder[i] = "other" THEN BestFrom(text, amount, i + 1, best)
    ELSE LET score == CategoryScore(text, CategoryOrder[i], amount)
         IN  IF Beats(score, best.score)
             THEN BestFrom(text, amount, i + 1,
                           [category |-> CategoryOrder[i], score |-> score])
             ELSE BestFrom(text, amount, i + 1, best)

\* the amount-based fallback
AmountBand(amount) ==
    IF amount < Cents(20) THEN "food"
    ELSE IF amount < Cents(100) THEN "shopping"
    ELSE IF amount < Cents(500) THEN "utilities"
    ELSE "other"

\* twice the score, not capped
DoubleScore(score) == NumAdd(score, score)

\* Math.min(bestScore * 2, 1)
Confidence(score) == NumMin(NumAdd(score, score), Rat(1, 1))

\* categorize(expenseName, amount, notes)
categorize(expenseName, amount, notes) ==
    LET text == toLowerCase(expenseName \o <<" ">> \o notes)
        best == BestFrom(text, amount, 1,
                         [category |-> "other", score |-> Rat(0, 1)])
    IN  [category   |-> IF NumLess(best.score, Rat(1, 10))
                        THEN AmountBand(amount)
                        ELSE best.category,
         confidence |-> Confidence(best.score)]

(***************************************************************************)
(* Optional values: a field that is undefined or null is None.             *)
(***************************************************************************)
None == <<>>

Some(x) == <<x>>

IsSome(o) == o # <<>>

Get(o) == o[1]

(***************************************************************************)
(* Square roots.  Math.sqrt of a rational that is not a perfect square is  *)
(* kept as the root of that rational.                                      *)
(***************************************************************************)
\* the largest r with r * r <= n, searched between lo and hi
RECURSIVE ISqrtIn(_, _, _)
ISqrtIn(n, lo, hi) ==
    IF lo >= hi THEN lo
    ELSE LET mid == (lo + hi + 1) \div 2
         IN  IF mid * mid <= n THEN ISqrtIn(n, mid, hi) ELSE ISqrtIn(n, lo, mid - 1)

ISqrt(n) == ISqrtIn(n, 0, IF n < 46340 THEN n ELSE 46340)

\* Math.sqrt(x) of a finite x >= 0
SqrtOf(x) == [kind |-> "sqrt", n |-> x.n, d |-> x.d]

\* Math.floor(scale * x) of a finite or sqrt number x >= 0
FloorScaled(x, scale) ==
    IF x.kind = "sqrt" THEN ISqrt((scale * scale * x.n) \div x.d)
    ELSE (scale * x.n) \div x.d

(***************************************************************************)
(* The Expense model.                                                      *)
(***************************************************************************)
\* amount: max 999999.99
MaxAmount == 99999999

\* name: maxlength 255
MaxNameLength == 255

\* receiptImageUrl: maxlength 500
MaxUrlLength == 500

IsSpace(c) == c \in {" ", "\t", "\n", "\r"}

\* String.prototype.trim
RECURSIVE TrimLeft(_)
TrimLeft(s) == IF s # <<>> /\ IsSpace(Head(s)) THEN TrimLeft(Tail(s)) ELSE s

RECURSIVE TrimRight(_)
TrimRight(s) ==
    IF s # <<>> /\ IsSpace(s[Len(s)]) THEN TrimRight(SubSeq(s, 1, Len(s) - 1)) ELSE s

trim(s) == TrimRight(TrimLeft(s))

TrimOpt(o) == IF IsSome(o) THEN Some(trim(Get(o))) ELSE None

\* new Expense({...}): the setters of expenseSchema (trim) and its defaults
NewExpense(fields) ==
    [fields EXCEPT !.name = trim(@),
                   !.subcategory = TrimOpt(@),
                   !.notes = TrimOpt(@)]

\* notes: maxlength 1000, subcategory: maxlength 100
SchemaMaxNotesLength == 1000

SchemaMaxSubcategoryLength == 100

\* validators that accept any category
AnyCategoryValid(doc) ==
    /\ doc.name # <<>>
    /\ Len(doc.name) <= MaxNameLength
    /\ doc.amount >= 0
    /\ doc.amount <= MaxAmount
    /\ IsSome(doc.date)

\* the validators of expenseSchema that run in save()
SchemaValid(doc) ==
    /\ doc.name # <<>>
    /\ Len(doc.name) <= MaxNameLength
    /\ doc.amount >= 0
    /\ doc.amount <= MaxAmount
    /\ doc.category \in CategoryEnum
    /\ IsSome(doc.date)
    /\ IsSome(doc.receiptImageUrl) => Get(doc.receiptImageUrl).length <= MaxUrlLength
    /\ IsSome(doc.subcategory) => Len(Get(doc.subcategory)) <= SchemaMaxSubcategoryLength
    /\ IsSome(doc.notes) => Len(Get(doc.notes)) <= SchemaMaxNotesLength
    /\ IsSome(doc.confidenceScore) =>
          /\ IsFinite(Get(doc.confidenceScore))
          /\ ~NumLess(Get(doc.confidenceScore), Rat(0, 1))
          /\ ~NumGreater(Get(doc.confidenceScore), Rat(1, 1))

(***************************************************************************)
(* AnomalyDetector.                                                        *)
(***************************************************************************)
\* the window of the history query, in days
WindowDays == 90

\* the least number of expenses a baseline needs
MinHistory == 5

\* amounts.reduce((sum, val) => sum + val, 0)
RECURSIVE SumAmounts(_, _)
SumAmounts(docs, ids) ==
    IF ids = {} THEN 0
    ELSE LET id == CHOOSE i \in ids : TRUE
         IN  docs[id].amount + SumAmounts(docs, ids \ {id})

\* the sum of the squares of the amounts
RECURSIVE SumSquares(_, _)
SumSquares(docs, ids) ==
    IF ids = {} THEN 0
    ELSE LET id == CHOOSE i \in ids : TRUE
         IN  docs[id].amount * docs[id].amount + SumSquares(docs, ids \ {id})

\* Expense.find({userId, category, date: {$gte: now - 90 days}})
FindHistory(docs, today, userId, category) ==
    {id \in DOMAIN docs :
        /\ docs[id].userId = userId
        /\ docs[id].category = category
        /\ IsSome(docs[id].date)
        /\ Get(docs[id].date) >= today - WindowDays}

\* a result that flags the amount whatever happened
FlaggedResult(reason) ==
    [isAnomaly |-> TRUE, zScore |-> None, mean |-> None, stdDev |-> None,
     reason |-> reason]

NoAnomalyResult(reason) ==
    [isAnomaly |-> FALSE, zScore |-> None, mean |-> None, stdDev |-> None,
     reason |-> reason]

\* x / y for finite x and y, y not 0
RatDiv(x, y) ==
    LET g1 == Gcd(Abs(x.n), Abs(y.n))
        g2 == Gcd(x.d, y.d)
    IN  Rat((x.n \div g1) * (y.d \div g2), (x.d \div g2) * (y.n \div g1))

\* the sample variance, dividing by n - 1
SampleVariance(n, sum, sumSq) == Rat(n * sumSq - sum * sum, n * (n - 1))

\* the population variance of n amounts with the given sum and sum of
\* squares: the mean of Math.pow(val - mean, 2)
Variance(n, sum, sumSq) == Rat(n * sumSq - sum * sum, n * n)

\* Math.abs((amount - mean) / stdDev) for stdDev = Math.sqrt(variance):
\* x / 0 is Infinity and 0 / 0 is NaN
ZScore(amount, mean, variance) ==
    LET diff == Abs(amount * mean.d - mean.n)
    IN  IF variance.n = 0 THEN (IF diff = 0 THEN NaN ELSE Infinity)
        ELSE SqrtOf(RatDiv(Rat(diff * diff, mean.d * mean.d), variance))

\* a detector content with a history of one expense
EmptyHistory(n) == n < 1

\* a detector that counts the expense being created into its own baseline
InsufficientWithOwn(n) == n + 1 < MinHistory

\* expenses.length < 5
InsufficientData(n) == n < MinHistory

\* zScore > 2.5
ExceedsThreshold(z) ==
    \/ z.kind = "Infinity"
    \/ z.kind = "sqrt" /\ 4 * z.n > 25 * z.d

\* detectAnomalies(userId, amount, category) on the collection docs, the
\* query failing or not
detectAnomalies(docs, today, userId, amount, category, queryFails) ==
    IF queryFails THEN NoAnomalyResult("Detection failed")
    ELSE LET expenses == FindHistory(docs, today, userId, category)
             n == Cardinality(expenses)
             mean == Rat(SumAmounts(docs, expenses), n)
             variance == Variance(n, SumAmounts(docs, expenses),
                                  SumSquares(docs, expenses))
             zScore == ZScore(amount, mean, variance)
             isAnomaly == ExceedsThreshold(zScore)
         IN  IF InsufficientData(n) THEN NoAnomalyResult("Insufficient data")
             ELSE [isAnomaly |-> isAnomaly,
                   zScore |-> Some(zScore),
                   mean |-> Some(mean),
                   stdDev |-> Some(SqrtOf(variance)),
                   reason |-> IF isAnomaly THEN "Amount is far from the mean"
                              ELSE "Normal spending pattern"]

(***************************************************************************)
(* The forecaster, ExpenseForecaster.forecastExpenses.  Dates are day      *)
(* numbers, day 0 being 1 January 2024.                                    *)
(***************************************************************************)
\* the days of the months from January 2024 to December 2025
MonthLengths ==
    <<31, 29, 31, 30, 31, 30, 31, 31, 30, 31, 30, 31,
      31, 28, 31, 30, 31, 30, 31, 31, 30, 31, 30, 31>>

\* the first day of month m (1 is January 2024)
RECURSIVE MonthStart(_)
MonthStart(m) == IF m = 1 THEN 0 ELSE MonthStart(m - 1) + MonthLengths[m - 1]

\* {year: {$year: '$date'}, month: {$month: '$date'}} as the number of the
\* calendar month the day lies in (1 is January 2024)
MonthStarts == [m \in DOMAIN MonthLengths |-> MonthStart(m)]

MonthOf(day) ==
    CHOOSE m \in DOMAIN MonthLengths :
        MonthStarts[m] <= day /\ day < MonthStarts[m] + MonthLengths[m]

\* 12 * 30 days
ForecastWindowDays == 360

MinBuckets == 3

HighConfidenceBuckets == 6

\* the $match stage: the user's expenses of the category dated in the window
MatchForecast(docs, today, userId, category) ==
    {id \in DOMAIN docs :
        /\ docs[id].userId = userId
        /\ docs[id].category = category
        /\ Get(docs[id].date) >= today - ForecastWindowDays}

\* {$sum: '$amount'} over the expenses ids
RECURSIVE SumOfIds(_, _)
SumOfIds(docs, ids) ==
    IF ids = {} THEN 0
    ELSE LET id == CHOOSE i \in ids : TRUE
         IN  docs[id].amount + SumOfIds(docs, ids \ {id})

\* the $group and $sort stages: one bucket per calendar month that has an
\* expense, with the month's total, in the order of the months
RECURSIVE BucketsFrom(_, _, _)
BucketsFrom(docs, ids, m) ==
    IF ids = {} \/ m > Len(MonthLengths) THEN <<>>
    ELSE LET inMonth == {id \in ids : MonthOf(Get(docs[id].date)) = m}
         IN  (IF inMonth = {} THEN <<>>
              ELSE <<[month |-> m, total |-> SumOfIds(docs, inMonth)]>>)
             \o BucketsFrom(docs, ids \ inMonth, m + 1)

\* the sum of i * y[i+1] and of i * i over the indices i = 0..n-1
RECURSIVE SumXY(_, _)
SumXY(y, n) == IF n = 0 THEN 0 ELSE SumXY(y, n - 1) + (n - 1) * y[n].total

RECURSIVE SumY(_, _)
SumY(y, n) == IF n = 0 THEN 0 ELSE SumY(y, n - 1) + y[n].total

RECURSIVE SumX(_)
SumX(n) == IF n = 0 THEN 0 ELSE SumX(n - 1) + (n - 1)

RECURSIVE SumXX(_)
SumXX(n) == IF n = 0 THEN 0 ELSE SumXX(n - 1) + (n - 1) * (n - 1)

\* the numerator of the slope with its terms exchanged
SwappedNumerator(y) == SumX(Len(y)) * SumY(y, Len(y)) - Len(y) * SumXY(y, Len(y))

\* n * sumXY - sumX * sumY and n * sumXX - sumX * sumX
SlopeNumerator(y) == Len(y) * SumXY(y, Len(y)) - SumX(Len(y)) * SumY(y, Len(y))

SlopeDenominator(n) == n * SumXX(n) - SumX(n) * SumX(n)

\* slope * k + intercept with intercept = (sumY - slope * sumX) / n
LineAt(y, k) ==
    LET n == Len(y)
        num == SlopeNumerator(y)
        den == SlopeDenominator(n)
    IN  Rat(num * k * n + SumY(y, n) * den - num * SumX(n), den * n)

\* the predicted amount as the line gives it
Unclamped(x) == x

\* Math.max(0, x)
NumMax0(x) == IF NumLess(x, Rat(0, 1)) THEN Rat(0, 1) ELSE x

\* n >= 6 ? 'high' : n >= 3 ? 'medium' : 'low'
ConfidenceOf(n) ==
    IF n >= HighConfidenceBuckets THEN "high"
    ELSE IF n >= MinBuckets THEN "medium" ELSE "low"

\* a forecaster content with two buckets
FewerThanTwo(n) == n < 2

\* fewer buckets than a forecast needs
TooFewBuckets(n) == n < MinBuckets

EmptyForecast == [forecast |-> <<>>, confidence |-> "low"]

\* forecastExpenses(userId, category, months); queryFails: the aggregation
\* rejects
forecastExpenses(docs, today, userId, category, months, queryFails) ==
    IF queryFails THEN EmptyForecast
    ELSE LET expenses ==
                 BucketsFrom(docs, MatchForecast(docs, today, userId, category), 1)
             n == Len(expenses)
         IN  IF TooFewBuckets(n) THEN EmptyForecast
             ELSE [forecast |->
                       [i \in 1..months |->
                           [month |-> expenses[n].month + i,
                            predictedAmount |-> NumMax0(LineAt(expenses, n + i - 1))]],
                   confidence |-> ConfidenceOf(n)]

(***************************************************************************)
(* The texts the requests are drawn from.                                  *)
(***************************************************************************)
NameUber == <<"U","b","e","r"," ","r","i","d","e"," ","h","o","m","e">>

NameXyz == <<"x","y","z","1","2","3">>

NameShort == <<"a","b">>

NameCoffee == <<"C","o","f","f","e","e"," ","a","t"," ","S","t","a","r","b","u","c","k","s">>

NameGas == <<"S","h","e","l","l"," ","g","a","s">>

NameBook == <<"b","o","o","k"," ","s","t","o","r","e">>

NotesCoffee == <<"M","o","r","n","i","n","g"," ","c","o","f","f","e","e">>

\* receipt texts
ReceiptTotals ==
    <<"T","o","t","a","l"," ","$","4","5",".","0","0","\n","S","u","b","t",
      "o","t","a","l"," ","$","4","0",".","0","0">>

ReceiptCafe ==
    <<"C","o","r","n","e","r"," ","C","a","f","e","\n","1","2","/","2","5",
      "/","2","0","2","3","\n","L","a","t","t","e"," ","4",".","5","0","\n",
      "T","o","t","a","l"," ","$"," ","4",".","5","0","\n","T","h","a","n",
      "k"," ","y","o","u">>

ReceiptBadDate ==
    <<"S","h","o","p","\n","9","9","/","9","9","/","9","9","\n","$","5">>

ReceiptIsoDate ==
    <<"o","n"," ","2","0","2","4","-","0","1","-","1","5","\n","a","b",
      "c">>

ReceiptWords ==
    <<"h","e","l","l","o"," ","w","o","r","l","d">>

ReceiptManyItems ==
    <<"i","t","e","m"," ","a","\n","i","t","e","m"," ","b","\n","i","t","e",
      "m"," ","c","\n","i","t","e","m"," ","d","\n","i","t","e","m"," ","e",
      "\n","i","t","e","m"," ","f","\n","i","t","e","m"," ","g","\n","i",
      "t","e","m"," ","h","\n","i","t","e","m"," ","i","\n","i","t","e","m",
      " ","j","\n","i","t","e","m"," ","k","\n","i","t","e","m"," ","l">>


\* five short lines before a line with a business word
ReceiptLateShop ==
    <<"a","\n","b","\n","c","\n","d","\n","e","\n","G","a","s"," ","b","a",
      "r">>

\* a short line, a business word in capitals, a longer line
ReceiptShortGas ==
    <<"a","b","\n","G","A","S","\n","l","o","n","g","e","r"," ","l","i","n",
      "e">>

\* a date token with a year of three digits
ReceiptShortYear ==
    <<"p","a","i","d"," ","1","/","1","/","1","2","3">>
(***************************************************************************)
(* The request bodies.                                                     *)
(***************************************************************************)
Day0 == 400

Users == {"alice", "bob"}

RecentDay == Day0 - 1

\* a body with an explicit category that passes both validations
BaseBody ==
    [name |-> NameXyz, amount |-> Cents(12), category |-> "food",
     subcategory |-> None, date |-> Some(RecentDay), notes |-> Some(NotesCoffee),
     receiptImageUrl |-> None]

\* a body to categorize, with blank notes
AutoBody ==
    [BaseBody EXCEPT !.name = NameUber, !.category = "auto", !.notes = Some(<<" ">>)]

\* the bodies Joi rejects
RejectedBodies ==
    {[BaseBody EXCEPT !.name = <<>>],
     [BaseBody EXCEPT !.amount = 0]}

\* a body to categorize whose notes hold the keyword
AutoNotesBody == [BaseBody EXCEPT !.category = "auto"]

\* a body to categorize whose text has no word of more than 2 characters
ShortAutoBody == [AutoBody EXCEPT !.name = NameShort]

\* the bodies Joi accepts and the Expense model does not
UnsavableBodies ==
    {[BaseBody EXCEPT !.name = <<" ">>],
     [BaseBody EXCEPT !.category = "groceries"]}

Bodies == {BaseBody, AutoBody, ShortAutoBody} \cup RejectedBodies \cup UnsavableBodies

\* a body for an update: another value for each field, the name and the
\* subcategory with blanks around them, no notes
UpdateBody ==
    [name |-> <<" ">> \o NameGas \o <<" ">>, amount |-> Cents(20),
     category |-> "transport", subcategory |-> Some(<<"c", "a", "r", " ">>),
     date |-> Some(Day0 - 2), notes |-> None, receiptImageUrl |-> None]

PutBodies == Bodies \cup {UpdateBody}

(***************************************************************************)
(* The /api/expenses routes.  req.user._id is the user the auth middleware *)
(* identified; each route is one atomic step.                              *)
(***************************************************************************)
\* notes: max 1000
MaxNotesLength == 1000

\* subcategory: max 100
MaxSubcategoryLength == 100

BlankToNone(o) == IF IsSome(o) /\ trim(Get(o)) = <<>> THEN None ELSE o

\* the request body with its blank optional fields deleted
NormalizeBody(body) ==
    [body EXCEPT !.notes = BlankToNone(@), !.subcategory = BlankToNone(@)]

\* expenseSchema.validate(requestBody) reports no error
JoiValid(b) ==
    /\ Len(b.name) >= 1
    /\ Len(b.name) <= MaxNameLength
    /\ b.amount > 0
    /\ b.amount <= MaxAmount
    /\ b.category # ""
    /\ IsSome(b.date)
    /\ IsSome(b.subcategory) => Len(Get(b.subcategory)) <= MaxSubcategoryLength
    /\ IsSome(b.notes) => Len(Get(b.notes)) <= MaxNotesLength
    /\ IsSome(b.receiptImageUrl) => Get(b.receiptImageUrl).uri

\* Math.min(Math.max(parseFloat(amount) || 0, 0), 999999.99)
ClampAmount(amount) ==
    IF amount < 0 THEN 0 ELSE IF amount > MaxAmount THEN MaxAmount ELSE amount

TextOf(o) == IF IsSome(o) THEN Get(o) ELSE <<>>

Response(op, user, status) ==
    [op |-> op, user |-> user, status |-> status, id |-> 0, data |-> <<>>,
     body |-> None, catFailed |-> FALSE, anomFailed |-> FALSE,
     category |-> "", anomaly |-> None, baseline |-> {},
     extractFailed |-> FALSE, ocrData |-> None, llmText |-> None]

\* a categorization that is not given the notes
CategorizeNameOnly(name, amount, notes) == categorize(name, amount, <<>>)

\* categorizeExpense(name, amount, notes): categorize, whose answers for
\* the arguments the requests carry are computed once
KnownCalls ==
    {<<b.name, ClampAmount(b.amount), TextOf(BlankToNone(b.notes))>> : b \in Bodies}

KnownAnswers == [c \in KnownCalls |-> categorize(c[1], c[2], c[3])]

categorizeExpense(name, amount, notes) ==
    IF <<name, amount, notes>> \in KnownCalls
    THEN KnownAnswers[<<name, amount, notes>>]
    ELSE categorize(name, amount, notes)

\* a categorization block without the fallback to 'other'
KeepRequestedCategory(category, catThrows, aiResult) ==
    IF category = "auto" /\ ~catThrows THEN aiResult.category ELSE category

\* the AI categorization block: the category the expense gets
AiCategory(category, catThrows, aiResult) ==
    IF category = "auto"
    THEN (IF catThrows THEN "other" ELSE aiResult.category)
    ELSE category

\* the anomaly detection block: the flag the expense gets
IsAnomalyAfter(anomOutcome, anomalyResult) ==
    IF anomOutcome = "throws" THEN FALSE ELSE anomalyResult.isAnomaly

\* POST /api/expenses.  catThrows: categorizeExpense rejects; anomOutcome:
\* detectAnomalies answers ("ok"), its query fails ("queryFails") or the
\* call itself rejects ("throws")
PostExpense(userId, body, catThrows, anomOutcome) ==
    LET value == NormalizeBody(body)
        normalizedAmount == ClampAmount(value.amount)
        auto == value.category = "auto"
        aiResult == categorizeExpense(value.name, normalizedAmount, TextOf(value.notes))
        aiCategory == AiCategory(value.category, catThrows, aiResult)
        confidenceScore ==
            IF auto /\ ~catThrows THEN Some(aiResult.confidence) ELSE None
        aiCategorized == auto /\ ~catThrows
        anomalyResult ==
            detectAnomalies(store, now, userId, value.amount, aiCategory,
                            anomOutcome = "queryFails")
        isAnomaly == IsAnomalyAfter(anomOutcome, anomalyResult)
        expense ==
            NewExpense([userId |-> userId,
                        name |-> value.name,
                        amount |-> normalizedAmount,
                        category |-> aiCategory,
                        subcategory |-> value.subcategory,
                        date |-> value.date,
                        notes |-> value.notes,
                        receiptImageUrl |-> value.receiptImageUrl,
                        ocrData |-> None,
                        aiCategorized |-> aiCategorized,
                        confidenceScore |-> confidenceScore,
                        isAnomaly |-> isAnomaly])
        ran == [Response("post", userId, 500) EXCEPT
                    !.body = Some(body),
                    !.catFailed = auto /\ catThrows,
                    !.anomFailed = anomOutcome # "ok",
                    !.category = aiCategory,
                    !.anomaly = IF anomOutcome = "throws" THEN None
                                ELSE Some(anomalyResult),
                    !.baseline = IF anomOutcome = "ok"
                                 THEN FindHistory(store, now, userId, aiCategory)
                                 ELSE {}]
    IN  IF ~JoiValid(value)
        THEN /\ resp' = [Response("post", userId, 400) EXCEPT !.body = Some(body)]
             /\ UNCHANGED <<store, nextId>>
        ELSE IF ~SchemaValid(expense)
        THEN /\ resp' = ran
             /\ UNCHANGED <<store, nextId>>
        ELSE /\ store' = (nextId :> expense) @@ store
             /\ nextId' = nextId + 1
             /\ resp' = [ran EXCEPT !.status = 201, !.id = nextId]

\* the orders in which a query sorted by {date: -1} can return ids
RECURSIVE Orderings(_, _)
Orderings(docs, ids) ==
    IF ids = {} THEN {<<>>}
    ELSE UNION {{<<id>> \o rest : rest \in Orderings(docs, ids \ {id})} :
                    id \in {i \in ids : \A j \in ids :
                                Get(docs[i].date) >= Get(docs[j].date)}}

\* a query that leaves the user out
EveryExpense(docs, userId, category) == DOMAIN docs

\* Expense.getUserExpenses(userId, {category}): the query is {userId},
\* narrowed by the category filter unless it is absent or 'all'
UserExpenses(docs, userId, category) ==
    {id \in DOMAIN docs :
        /\ docs[id].userId = userId
        /\ (IsSome(category) /\ Get(category) # "all")
               => docs[id].category = Get(category)}

\* GET /api/expenses
GetExpenses(userId, category) ==
    /\ \E order \in Orderings(store, UserExpenses(store, userId, category)) :
          resp' = [Response("get", userId, 200) EXCEPT !.data = order]
    /\ UNCHANGED <<store, nextId>>

\* a lookup by _id alone
OwnsAny(docs, userId, id) == id \in DOMAIN docs

\* Expense.findOne({_id: id, userId}) finds a document
Owns(docs, userId, id) == id \in DOMAIN docs /\ docs[id].userId = userId

\* an update that also forgets what the categorizer and the detector said
ResetExpense(doc, value) ==
    [doc EXCEPT !.name = trim(value.name),
                !.amount = value.amount,
                !.category = value.category,
                !.subcategory = TrimOpt(value.subcategory),
                !.date = value.date,
                !.notes = TrimOpt(value.notes),
                !.aiCategorized = FALSE,
                !.confidenceScore = None,
                !.isAnomaly = FALSE]

\* the six assignments of the update, each cast by the Expense model
UpdatedExpense(doc, value) ==
    [doc EXCEPT !.name = trim(value.name),
                !.amount = value.amount,
                !.category = value.category,
                !.subcategory = TrimOpt(value.subcategory),
                !.date = value.date,
                !.notes = TrimOpt(value.notes)]

\* PUT /api/expenses/:id
PutExpense(userId, id, body) ==
    LET value == NormalizeBody(body)
        expense == UpdatedExpense(store[id], value)
        answer(status) ==
            [Response("put", userId, status) EXCEPT !.id = id, !.body = Some(body)]
    IN  IF ~JoiValid(value)
        THEN resp' = answer(400) /\ UNCHANGED <<store, nextId>>
        ELSE IF ~Owns(store, userId, id)
        THEN resp' = answer(404) /\ UNCHANGED <<store, nextId>>
        ELSE IF ~SchemaValid(expense)
        THEN resp' = answer(500) /\ UNCHANGED <<store, nextId>>
        ELSE /\ store' = [store EXCEPT ![id] = expense]
             /\ resp' = answer(200)
             /\ UNCHANGED nextId

\* a removal that takes the older expenses along
WithoutUpTo(docs, id) == [i \in {j \in DOMAIN docs : j > id} |-> docs[i]]

\* docs without the document id
Without(docs, id) == [i \in DOMAIN docs \ {id} |-> docs[i]]

\* DELETE /api/expenses/:id
DeleteExpense(userId, id) ==
    IF ~Owns(store, userId, id)
    THEN /\ resp' = [Response("delete", userId, 404) EXCEPT !.id = id]
         /\ UNCHANGED <<store, nextId>>
    ELSE /\ store' = Without(store, id)
         /\ resp' = [Response("delete", userId, 200) EXCEPT !.id = id]
         /\ UNCHANGED nextId

(***************************************************************************)
(* POST /api/ai/semantic-search.                                           *)
(***************************************************************************)
\* the least length of a search query
MinQueryLength == 3

\* s.split(','): the pieces between the commas
RECURSIVE SplitCommaFrom(_, _, _)
SplitCommaFrom(s, i, piece) ==
    IF i > Len(s) THEN <<piece>>
    ELSE IF s[i] = "," THEN <<piece>> \o SplitCommaFrom(s, i + 1, <<>>)
    ELSE SplitCommaFrom(s, i + 1, Append(piece, s[i]))

SplitComma(s) == SplitCommaFrom(s, 1, <<>>)

DigitValue(c) ==
    CASE c = "0" -> 0 [] c = "1" -> 1 [] c = "2" -> 2 [] c = "3" -> 3
      [] c = "4" -> 4 [] c = "5" -> 5 [] c = "6" -> 6 [] c = "7" -> 7
      [] c = "8" -> 8 [] c = "9" -> 9

\* the value of the longest prefix of decimal digits of s from position i,
\* acc being the value read so far; None when there is no digit
RECURSIVE DigitsFrom(_, _, _)
DigitsFrom(s, i, acc) ==
    IF i <= Len(s) /\ s[i] \in Digits
    THEN DigitsFrom(s, i + 1,
                    Some(10 * (IF IsSome(acc) THEN Get(acc) ELSE 0) + DigitValue(s[i])))
    ELSE acc

HexDigits == Digits \cup {"a", "b", "c", "d", "e", "f"}

HexValue(c) ==
    CASE c \in Digits -> DigitValue(c)
      [] c = "a" -> 10 [] c = "b" -> 11 [] c = "c" -> 12
      [] c = "d" -> 13 [] c = "e" -> 14 [] c = "f" -> 15

\* the same for hexadecimal digits
RECURSIVE HexDigitsFrom(_, _, _)
HexDigitsFrom(s, i, acc) ==
    IF i <= Len(s) /\ s[i] \in HexDigits
    THEN HexDigitsFrom(s, i + 1,
                       Some(16 * (IF IsSome(acc) THEN Get(acc) ELSE 0) + HexValue(s[i])))
    ELSE acc

\* parseInt(s) with no radix: leading white space, a sign, and then
\* hexadecimal digits after a 0x prefix, decimal digits otherwise; None is
\* NaN
parseInt(s) ==
    LET t == TrimLeft(s)
        signed == t # <<>> /\ t[1] \in {"-", "+"}
        first == IF signed THEN 2 ELSE 1
        hex == Len(t) > first /\ t[first] = "0" /\ t[first + 1] = "x"
        digits == IF hex THEN HexDigitsFrom(t, first + 2, None)
                  ELSE DigitsFrom(t, first, None)
    IN  IF ~IsSome(digits) THEN None
        ELSE IF signed /\ t[1] = "-" THEN Some(-Get(digits)) ELSE digits

NoneText == <<"n", "o", "n", "e">>

\* the expenses at the indices the model's answer names
RECURSIVE MatchingExpenses(_, _)
MatchingExpenses(expenses, pieces) ==
    IF pieces = <<>> THEN <<>>
    ELSE LET num == parseInt(trim(Head(pieces)))
             index == Get(num) - 1
             rest == MatchingExpenses(expenses, Tail(pieces))
         IN  IF IsSome(num) /\ index >= 0 /\ index < Len(expenses)
             THEN <<expenses[index + 1]>> \o rest
             ELSE rest

\* llm is how generateContent ends: "failed", "notFound" (an error whose
\* message has '404 Not Found') or "answered", with the text it returns
SemanticSearch(userId, query, llm, text) ==
    /\ UNCHANGED <<store, nextId>>
    /\ IF Len(trim(query)) < MinQueryLength
       THEN resp' = Response("search", userId, 400)
       ELSE \E expenses \in Orderings(store, UserExpenses(store, userId, None)) :
              IF expenses = <<>> THEN resp' = Response("search", userId, 200)
              ELSE IF llm = "notFound" THEN resp' = Response("search", userId, 503)
              ELSE IF llm = "failed" THEN resp' = Response("search", userId, 500)
              ELSE IF trim(text) = NoneText
              THEN resp' = [Response("search", userId, 200) EXCEPT
                               !.llmText = Some(text)]
              ELSE resp' = [Response("search", userId, 200) EXCEPT
                               !.llmText = Some(text),
                               !.data = MatchingExpenses(expenses, SplitComma(trim(text)))]

(***************************************************************************)
(* The receipt parser, OCRService.parseReceiptData.                        *)
(***************************************************************************)
\* s.split('\n'): the pieces between the line feeds
RECURSIVE SplitLinesFrom(_, _, _)
SplitLinesFrom(s, i, piece) ==
    IF i > Len(s) THEN <<piece>>
    ELSE IF s[i] = "\n" THEN <<piece>> \o SplitLinesFrom(s, i + 1, <<>>)
    ELSE SplitLinesFrom(s, i + 1, Append(piece, s[i]))

NonEmpty(line) == Len(line) > 0

\* text.split('\n').map(line => line.trim()).filter(line => line.length > 0)
ReceiptLines(t) ==
    LET pieces == SplitLinesFrom(t, 1, <<>>)
    IN  SelectSeq([i \in DOMAIN pieces |-> trim(pieces[i])], NonEmpty)

CurrencySymbols == {"$", "₹", "€", "£"}

DateSeparators == {"/", "-"}

\* s.includes(w)
Includes(s, w) ==
    \E i \in 1..(Len(s) - Len(w) + 1) : SubSeq(s, i, i + Len(w) - 1) = w

\* s starts with w
StartsWith(s, w) == Len(s) >= Len(w) /\ SubSeq(s, 1, Len(w)) = w

businessWords ==
    <<<<"r","e","s","t","a","u","r","a","n","t">>,
      <<"c","a","f","e">>,
      <<"s","t","o","r","e">>,
      <<"s","h","o","p">>,
      <<"m","a","r","k","e","t">>,
      <<"p","h","a","r","m","a","c","y">>,
      <<"g","a","s">>,
      <<"s","t","a","t","i","o","n">>>>

\* a merchant test that looks at the length only
LongEnough(line) == Len(line) > 5 /\ Len(line) < 50

\* the merchant test of a line: a business word, or 6 to 49 characters
LooksLikeMerchant(line) ==
    \/ \E k \in DOMAIN businessWords : Includes(toLowerCase(line), businessWords[k])
    \/ Len(line) > 5 /\ Len(line) < 50

\* the first of the first five lines that passes the merchant test, '' if none
RECURSIVE FindMerchant(_, _)
FindMerchant(lines, i) ==
    IF i > Len(lines) \/ i > 5 THEN <<>>
    ELSE IF LooksLikeMerchant(lines[i]) THEN lines[i]
    ELSE FindMerchant(lines, i + 1)

\* the number of consecutive decimal digits of s from position i
RECURSIVE DigitRun(_, _)
DigitRun(s, i) ==
    IF i <= Len(s) /\ s[i] \in Digits THEN 1 + DigitRun(s, i + 1) ELSE 0

\* the number of consecutive whitespace characters of s from position i
RECURSIVE SpaceRun(_, _)
SpaceRun(s, i) ==
    IF i <= Len(s) /\ IsSpace(s[i]) THEN 1 + SpaceRun(s, i + 1) ELSE 0

\* amountPattern tried at position i: the position after the match, 0 when
\* it does not match there.  (\$|₹|€|£)?\s*(\d+\.?\d*)
AmountMatchEnd(s, i) ==
    LET j == IF i <= Len(s) /\ s[i] \in CurrencySymbols THEN i + 1 ELSE i
        k == j + SpaceRun(s, j)
        whole == DigitRun(s, k)
        p == k + whole
        q == IF p <= Len(s) /\ s[p] = "." THEN p + 1 ELSE p
    IN  IF whole = 0 THEN 0 ELSE q + DigitRun(s, q)

\* line.match(amountPattern) with the g flag: the matches from left to
\* right, none overlapping
RECURSIVE AmountMatches(_, _)
AmountMatches(s, i) ==
    IF i > Len(s) THEN <<>>
    ELSE LET e == AmountMatchEnd(s, i)
         IN  IF e = 0 THEN AmountMatches(s, i + 1)
             ELSE <<SubSeq(s, i, e - 1)>> \o AmountMatches(s, e)

IsDigitOrDot(c) == c \in Digits \cup {"."}

\* match.replace(/[^\d.]/g, '')
StripNonNumeric(m) == SelectSeq(m, IsDigitOrDot)

\* the value of a sequence of decimal digits
RECURSIVE DigitsValue(_, _)
DigitsValue(s, acc) ==
    IF s = <<>> THEN acc ELSE DigitsValue(Tail(s), 10 * acc + DigitValue(s[1]))

RECURSIVE Pow10(_)
Pow10(n) == IF n = 0 THEN 1 ELSE 10 * Pow10(n - 1)

\* parseFloat(s): the longest prefix digits [. digits], NaN without a digit
parseFloat(s) ==
    LET whole == DigitRun(s, 1)
        dotted == whole < Len(s) /\ s[whole + 1] = "."
        frac == IF dotted THEN DigitRun(s, whole + 2) ELSE 0
    IN  IF whole = 0 /\ frac = 0 THEN NaN
        ELSE Rat(DigitsValue(SubSeq(s, 1, whole) \o
                             SubSeq(s, whole + 2, whole + 1 + frac), 0),
                 Pow10(frac))

\* whether a match of the amount pattern is kept: its value is above 0
IsPositive(num) == NumGreater(num, Rat(0, 1))

\* the amounts of one line: the positive values of its matches
LineAmounts(line) ==
    LET matches == AmountMatches(line, 1)
        nums == [k \in DOMAIN matches |-> parseFloat(StripNonNumeric(matches[k]))]
    IN  SelectSeq(nums, IsPositive)

\* the amounts of all the lines
RECURSIVE CollectAmounts(_, _)
CollectAmounts(lines, i) ==
    IF i > Len(lines) THEN <<>>
    ELSE LineAmounts(lines[i]) \o CollectAmounts(lines, i + 1)

\* Math.max(...amounts) of a non-empty list
RECURSIVE MaxOf(_, _, _)
MaxOf(amounts, i, best) ==
    IF i > Len(amounts) THEN best
    ELSE MaxOf(amounts, i + 1,
               IF NumGreater(amounts[i], best) THEN amounts[i] ELSE best)

\* the first amount found, 0 when there is none
FirstAmount(amounts) ==
    IF Len(amounts) > 0 THEN amounts[1] ELSE Rat(0, 1)

\* Math.max(...amounts) also of an empty list, which is -Infinity
MaxUnguarded(amounts) ==
    IF Len(amounts) > 0 THEN MaxOf(amounts, 2, amounts[1])
    ELSE [kind |-> "-Infinity", n |-> -1, d |-> 1]

\* the largest amount, 0 when there is none
LargestAmount(amounts) ==
    IF Len(amounts) > 0 THEN MaxOf(amounts, 2, amounts[1]) ELSE Rat(0, 1)

\* a run of lo to hi digits at position i that a separator follows: its
\* length, 0 when there is none
DatePart(s, i, lo, hi) ==
    LET run == DigitRun(s, i)
    IN  IF run >= lo /\ run <= hi /\ i + run <= Len(s)
           /\ s[i + run] \in DateSeparators
        THEN run ELSE 0

\* the last group of a date: at least lo digits, at most hi are taken
DateTail(s, i, lo, hi) ==
    LET run == DigitRun(s, i)
    IN  IF run < lo THEN 0 ELSE IF run > hi THEN hi ELSE run

\* one alternative of datePattern tried at position i, its first group of
\* lo1 to hi1 digits and its last of lo3 to hi3: the position after the
\* match, 0 when it does not match there
DateAlternativeEnd(s, i, lo1, hi1, lo3, hi3) ==
    LET a == DatePart(s, i, lo1, hi1)
        j == i + a + 1
        b == DatePart(s, j, 1, 2)
        k == j + b + 1
        c == DateTail(s, k, lo3, hi3)
    IN  IF a = 0 \/ b = 0 \/ c = 0 THEN 0 ELSE k + c

\* a date pattern without its second alternative
FirstAlternativeOnly(s, i) == DateAlternativeEnd(s, i, 1, 2, 2, 4)

\* datePattern tried at position i: d{1,2} sep d{1,2} sep d{2,4} first,
\* d{4} sep d{1,2} sep d{1,2} second
DateMatchEnd(s, i) ==
    LET first == DateAlternativeEnd(s, i, 1, 2, 2, 4)
    IN  IF first # 0 THEN first ELSE DateAlternativeEnd(s, i, 4, 4, 1, 2)

\* line.match(datePattern): the leftmost match, '' when there is none
RECURSIVE DateMatch(_, _)
DateMatch(s, i) ==
    IF i > Len(s) THEN <<>>
    ELSE LET e == DateMatchEnd(s, i)
         IN  IF e = 0 THEN DateMatch(s, i + 1) ELSE SubSeq(s, i, e - 1)

\* the match of the first line that has one, '' when no line has
RECURSIVE FindDate(_, _)
FindDate(lines, i) ==
    IF i > Len(lines) THEN <<>>
    ELSE LET m == DateMatch(lines[i], 1)
         IN  IF m # <<>> THEN m ELSE FindDate(lines, i + 1)

NonItemWords ==
    <<<<"t","o","t","a","l">>,
      <<"s","u","b","t","o","t","a","l">>,
      <<"t","a","x">>,
      <<"d","i","s","c","o","u","n","t">>,
      <<"a","m","o","u","n","t">>,
      <<"d","a","t","e">>,
      <<"t","i","m","e">>,
      <<"r","e","c","e","i","p","t">>,
      <<"t","h","a","n","k">>,
      <<"y","o","u">>>>

\* /^(total|subtotal|tax|discount|amount|date|time|receipt|thank|you)/i
StartsWithNonItemWord(line) ==
    \E k \in DOMAIN NonItemWords : StartsWith(toLowerCase(line), NonItemWords[k])

\* /^[\d\s\$₹€£\.]+$/
OnlyNumbersOrCurrency(line) ==
    /\ Len(line) > 0
    /\ \A k \in DOMAIN line :
          line[k] \in Digits \cup CurrencySymbols \cup {"."} \/ IsSpace(line[k])

\* whether a line is pushed onto items
IsItem(line) ==
    /\ ~StartsWithNonItemWord(line)
    /\ ~OnlyNumbersOrCurrency(line)
    /\ ~(Len(line) < 3)
    /\ Len(line) > 3 /\ Len(line) < 100

\* the first n elements of s
Slice(s, n) == SubSeq(s, 1, IF Len(s) < n THEN Len(s) ELSE n)

UnknownMerchant ==
    <<"U","n","k","n","o","w","n"," ","M","e","r","c","h","a","n","t">>

\* new Date().toISOString().split('T')[0] on the day of the extraction
TodayIso ==
    <<"2","0","2","6","-","1","1","-","0","4">>

parseReceiptData(t) ==
    LET lines == ReceiptLines(t)
        merchant == FindMerchant(lines, 1)
        amount == LargestAmount(CollectAmounts(lines, 1))
        date == FindDate(lines, 1)
        items == SelectSeq(lines, IsItem)
    IN  [merchant |-> IF merchant # <<>> THEN merchant ELSE UnknownMerchant,
         amount |-> amount,
         date |-> IF date # <<>> THEN date ELSE TodayIso,
         items |-> Slice(items, 10),
         rawText |-> t]

(***************************************************************************)
(* POST /api/expenses/upload-receipt.                                      *)
(***************************************************************************)
\* the pieces of a date string between its separators
RECURSIVE DateFieldsFrom(_, _, _)
DateFieldsFrom(d, i, piece) ==
    IF i > Len(d) THEN <<piece>>
    ELSE IF d[i] \in {"/", "-"} THEN <<piece>> \o DateFieldsFrom(d, i + 1, <<>>)
    ELSE DateFieldsFrom(d, i + 1, Append(piece, d[i]))

\* the day number of day d of month m of year y; the days before 2024 are
\* all day -1 and the days after 2025 all the day after the calendar
DayNumber(y, m, d) ==
    IF y < 2024 THEN -1
    ELSE IF y > 2025 THEN MonthStarts[24] + MonthLengths[24]
    ELSE MonthStarts[(y - 2024) * 12 + m] + d - 1

\* new Date(s) of a date token of the parser, as V8's legacy date parser
\* reads three numbers: year-month-day when the first cannot be a day,
\* month-day-year otherwise, a year below 50 being 20yy and one below 100
\* 19yy; None is Invalid Date
DateOfToken(s) ==
    LET f == DateFieldsFrom(s, 1, <<>>)
        v(k) == DigitsValue(f[k], 0)
        yearFirst == Len(f[1]) = 4 \/ v(1) > 31 \/ v(1) < 1
        y0 == IF yearFirst THEN v(1) ELSE v(3)
        m == IF yearFirst THEN v(2) ELSE v(1)
        d == IF yearFirst THEN v(3) ELSE v(2)
        y == IF Len(f[1]) = 4 /\ yearFirst THEN y0
             ELSE IF y0 < 50 THEN 2000 + y0
             ELSE IF y0 < 100 THEN 1900 + y0 ELSE y0
    IN  IF m \in 1..12 /\ d \in 1..31 THEN Some(DayNumber(y, m, d)) ELSE None

\* ocrData.date ? new Date(ocrData.date) : new Date(); the parser's own
\* fallback, today's date, reads back as today
NormalizedDate(date, today) ==
    IF date = TodayIso THEN Some(today) ELSE DateOfToken(date)

\* items.join(', ')
RECURSIVE JoinItems(_)
JoinItems(items) ==
    IF items = <<>> THEN <<>>
    ELSE IF Len(items) = 1 THEN items[1]
    ELSE items[1] \o <<",", " ">> \o JoinItems(Tail(items))

\* the amount in hundredths
ToCents(x) == (x.n * 100) \div x.d

\* the length of req.file.path
UploadPathLength == 60

\* extractReceiptData(path) when the extraction gives text: the parsed
\* text, computed once for the sample receipts
KnownReceipts ==
    [t \in {ReceiptTotals, ReceiptBadDate, ReceiptIsoDate, ReceiptCafe} |->
        parseReceiptData(t)]

extractReceiptData(text) ==
    IF text \in DOMAIN KnownReceipts THEN KnownReceipts[text]
    ELSE parseReceiptData(text)

\* an extraction that answers no text where the engine throws
EmptyOnFailure(extraction) ==
    IF IsSome(extraction) THEN extraction ELSE Some(<<>>)

\* extractText(imagePath): the engine's text; its error is thrown on, which
\* None stands for
extractText(extraction) == extraction

\* new Expense({...}) of the upload route, from the parsed receipt
ReceiptExpense(userId, ocrData, today) ==
    NewExpense([userId |-> userId,
                name |-> ocrData.merchant,
                amount |-> ClampAmount(ToCents(ocrData.amount)),
                category |-> "other",
                subcategory |-> None,
                date |-> NormalizedDate(ocrData.date, today),
                notes |-> Some(JoinItems(ocrData.items)),
                receiptImageUrl |-> Some([uri |-> FALSE,
                                          length |-> UploadPathLength]),
                ocrData |-> Some(ocrData),
                aiCategorized |-> FALSE,
                confidenceScore |-> None,
                isAnomaly |-> FALSE])

\* expense.save() of the upload route and its answer
SaveReceipt(expense, answer) ==
    IF ~SchemaValid(expense)
    THEN /\ resp' = [answer EXCEPT !.status = 500, !.ocrData = expense.ocrData]
         /\ UNCHANGED <<store, nextId>>
    ELSE /\ store' = (nextId :> expense) @@ store
         /\ nextId' = nextId + 1
         /\ resp' = [answer EXCEPT !.status = 200, !.id = nextId,
                                   !.ocrData = expense.ocrData]

\* extraction: the text the OCR or PDF engine extracts, None when it throws
UploadReceipt(userId, hasFile, extraction) ==
    LET text == extractText(extraction)
        answer(status) ==
            [Response("upload", userId, status) EXCEPT
                !.extractFailed = ~IsSome(extraction)]
    IN  IF ~hasFile
        THEN /\ resp' = Response("upload", userId, 400)
             /\ UNCHANGED <<store, nextId>>
        ELSE IF ~IsSome(text)
        THEN /\ resp' = answer(500)
             /\ UNCHANGED <<store, nextId>>
        ELSE SaveReceipt(ReceiptExpense(userId, extractReceiptData(Get(text)), now),
                         answer(500))
(***************************************************************************)
(* Bounds.                                                                 *)
(***************************************************************************)
\* the longest generated expense name
MaxNameLen == 3

\* every string over alphabet of at most n characters
RECURSIVE StringsUpTo(_, _)
StringsUpTo(alphabet, n) ==
    IF n = 0 THEN {<<>>}
    ELSE LET shorter == StringsUpTo(alphabet, n - 1)
         IN  shorter \cup {Append(s, c) : s \in shorter, c \in alphabet}

CatAlphabet == {"g", "a", "s", " "}

CatNames ==
    {NameUber, NameXyz, NameShort, NameCoffee, NameGas, NameBook}
        \cup StringsUpTo(CatAlphabet, MaxNameLen)

CatNotes == {<<>>, NotesCoffee}

CatAmounts ==
    {Cents(15), Cents(20), Cents(22), Cents(50), Cents(75),
     Cents(100), Cents(250), Cents(500), Cents(600)}

(***************************************************************************)
(* The states of the parts of the system a specification leaves alone.     *)
(***************************************************************************)
NoExpenses == <<>>

NoResponse == Response("none", "nobody", 0)

NoCatIn == [name |-> <<>>, amount |-> 0, notes |-> <<>>]

NotCategorized == [called |-> FALSE, category |-> "none", confidence |-> NaN]

ServerIdle ==
    /\ store = NoExpenses
    /\ nextId = 1
    /\ now = Day0
    /\ resp = NoResponse

CatIdle ==
    /\ catIn = NoCatIn
    /\ catOut = NotCategorized

NoText == <<>>

NotParsed ==
    [called |-> FALSE, merchant |-> <<>>, amount |-> Rat(0, 1), date |-> <<>>,
     items |-> <<>>, rawText |-> <<>>]

ParseIdle ==
    /\ rawText = NoText
    /\ parsed = NotParsed

NoCall ==
    [op |-> "none", user |-> "nobody", category |-> "", amount |-> 0,
     months |-> 0, failed |-> FALSE, anomaly |-> NoAnomalyResult("none"),
     forecast |-> EmptyForecast]

MlIdle == ml = NoCall


\* the number of uploads in progress at once
MaxUploads == 3

Uploads == 1..MaxUploads

\* new OCRService(): no worker; no upload has started.  at[r] is where
\* upload r waits, on[r] the worker its pending call was made on
NoOcr ==
    [running |-> TRUE, worker |-> 0, created |-> 0, loaded |-> {},
     initialized |-> {}, at |-> [r \in Uploads |-> "idle"],
     on |-> [r \in Uploads |-> 0]]

OcrIdle == ocrService = NoOcr

\* the client before it has loaded anything: let expenses = [].  expenses
\* and server are sets of expense ids, timers the snapshots of the pending
\* restore timers in the order they were started, inflight the requests
\* that have not been answered
NoClient ==
    [expenses |-> {}, server |-> {}, nextId |-> 1, timers |-> <<>>,
     inflight |-> {}, searches |-> 0, fired |-> 0]

ClientIdle == client = NoClient
(***************************************************************************)
(* Spec: the routes, called in any order by any user, from an empty        *)
(* collection.                                                             *)
(***************************************************************************)
\* the most expenses ever created
MaxExpenses == 2

AnomOutcomes == {"ok", "queryFails", "throws"}

CategoryFilters == {None, Some("all"), Some("food")}

GoodQuery == <<"c", "a", "b">>

ShortQuery == <<" ", "c", "a", " ">>

\* the ways the request's collaborators can end that matter for the body
CatOutcomes(b) == IF b.category = "auto" THEN BOOLEAN ELSE {FALSE}

AnomOutcomesFor(b) == IF JoiValid(NormalizeBody(b)) THEN AnomOutcomes ELSE {"ok"}

\* the texts the model returns: indices, in and out of range, with other
\* characters, negative, hexadecimal, nothing, and 'none'
Answers ==
    {<<"1">>, <<"2", ",", "1">>, <<" ", "2", "x">>, <<"x">>, <<"0">>, <<"3">>,
     <<"-", "1">>, <<"0", "x", "2">>, <<>>, NoneText}

Ids == 1..MaxExpenses

\* what the extraction of an uploaded receipt gives: nothing when it throws
Extractions == {None, Some(ReceiptTotals), Some(ReceiptBadDate)}

Init ==
    /\ ServerIdle
    /\ CatIdle
    /\ ParseIdle
    /\ MlIdle
    /\ OcrIdle
    /\ ClientIdle

Post ==
    /\ nextId <= MaxExpenses
    /\ \E u \in Users, b \in Bodies :
          \E catThrows \in CatOutcomes(b), a \in AnomOutcomesFor(b) :
              PostExpense(u, b, catThrows, a)
    /\ UNCHANGED <<now, catIn, catOut, rawText, parsed, ml, ocrService, client>>

List ==
    /\ \E u \in Users, c \in CategoryFilters : GetExpenses(u, c)
    /\ UNCHANGED <<now, catIn, catOut, rawText, parsed, ml, ocrService, client>>

Put ==
    /\ \E u \in Users, id \in Ids, b \in PutBodies : PutExpense(u, id, b)
    /\ UNCHANGED <<now, catIn, catOut, rawText, parsed, ml, ocrService, client>>

Delete ==
    /\ \E u \in Users, id \in Ids : DeleteExpense(u, id)
    /\ UNCHANGED <<now, catIn, catOut, rawText, parsed, ml, ocrService, client>>

SearchFailed ==
    /\ \E u \in Users, q \in {GoodQuery, ShortQuery}, llm \in {"failed", "notFound"} :
          SemanticSearch(u, q, llm, <<>>)
    /\ UNCHANGED <<now, catIn, catOut, rawText, parsed, ml, ocrService, client>>

SearchAnswered ==
    /\ \E u \in Users, text \in Answers :
          SemanticSearch(u, GoodQuery, "answered", text)
    /\ UNCHANGED <<now, catIn, catOut, rawText, parsed, ml, ocrService, client>>

Upload ==
    /\ nextId <= MaxExpenses
    /\ \E u \in Users, hasFile \in BOOLEAN, e \in Extractions :
          UploadReceipt(u, hasFile, e)
    /\ UNCHANGED <<now, catIn, catOut, rawText, parsed, ml, ocrService, client>>

Next == Post \/ List \/ Upload \/ Put \/ Delete \/ SearchFailed \/ SearchAnswered

Spec == Init /\ [][Next]_vars

\* what a list, a search or an anomaly baseline read belongs to the requester
ScopedReads ==
    /\ resp.op \in {"get", "search"} =>
          \A i \in DOMAIN resp.data :
              /\ resp.data[i] \in DOMAIN store
              /\ store[resp.data[i]].userId = resp.user
    /\ resp.op = "post" =>
          \A id \in resp.baseline : store[id].userId = resp.user

\* the step is a PUT or DELETE on an expense of another user
ForeignWrite ==
    /\ resp'.op \in {"put", "delete"}
    /\ resp'.id \in DOMAIN store
    /\ store[resp'.id].userId # resp'.user

ForeignExpenseUnchanged ==
    /\ resp'.id \in DOMAIN store'
    /\ store'[resp'.id] = store[resp'.id]

\* C2 as stated: reads are scoped by the requester, and a PUT or DELETE on
\* an expense of another user is answered 404 and leaves it unchanged.
C2_AsStated ==
    /\ []ScopedReads
    /\ [][ForeignWrite => (resp'.status = 404 /\ ForeignExpenseUnchanged)]_vars

\* C2: reads are scoped by the requester, and a PUT or DELETE on an expense
\* of another user leaves it unchanged and is answered 404, or 400 when it
\* is a PUT whose body fails the request's validation.
C2_ScopedByUser ==
    /\ []ScopedReads
    /\ [][ForeignWrite =>
            /\ ForeignExpenseUnchanged
            /\ resp'.status =
                  IF resp'.op = "put" /\ ~JoiValid(NormalizeBody(Get(resp'.body)))
                  THEN 400 ELSE 404]_vars

\* bob's DELETE of an expense of alice was answered 404
C2_Witness ==
    /\ resp.op = "delete"
    /\ resp.user = "bob"
    /\ resp.status = 404
    /\ resp.id \in DOMAIN store
    /\ store[resp.id].userId = "alice"

\* C16: when the text extraction of an uploaded receipt fails, the request
\* is answered with an error, nothing is parsed and no expense is saved;
\* the expenses already stored stay as they are.
C16_ExtractionFailureSurfaced ==
    [][(resp'.op = "upload" /\ resp'.extractFailed) =>
          /\ resp'.status = 500
          /\ resp'.ocrData = None
          /\ store' = store
          /\ nextId' = nextId]_vars

C16_Witness ==
    /\ resp.op = "upload"
    /\ resp.extractFailed
    /\ resp.status = 500
    /\ Cardinality(DOMAIN store) = 1


\* the fields of an expense an update leaves alone
KeptFields ==
    {"userId", "aiCategorized", "confidenceScore", "isAnomaly",
     "receiptImageUrl", "ocrData"}

\* a request the validation of the route and the validators of the Expense
\* model both accept
ValidUpdate(value) ==
    /\ JoiValid(value)
    /\ trim(value.name) # <<>>
    /\ value.category \in CategoryEnum

\* C19: a valid PUT on an expense of the requester is answered 200 and sets
\* exactly name, amount, category, subcategory, date and notes to the values
\* of the request (as the validation and the model normalise them: blank
\* optional fields absent, strings trimmed); userId, aiCategorized,
\* confidenceScore, isAnomaly, receiptImageUrl, ocrData and every other
\* expense stay as they were. A PUT that passes the validation on an id the
\* requester has no expense under is answered 404 and changes nothing.
C19_UpdateSetsSixFields ==
    [][resp'.op = "put" =>
          LET id == resp'.id
              value == NormalizeBody(Get(resp'.body))
              owned == id \in DOMAIN store /\ store[id].userId = resp'.user
          IN  /\ (owned /\ ValidUpdate(value)) =>
                    /\ resp'.status = 200
                    /\ DOMAIN store' = DOMAIN store
                    /\ store'[id].name = trim(value.name)
                    /\ store'[id].amount = value.amount
                    /\ store'[id].category = value.category
                    /\ store'[id].subcategory = TrimOpt(value.subcategory)
                    /\ store'[id].date = value.date
                    /\ store'[id].notes = TrimOpt(value.notes)
                    /\ \A f \in KeptFields : store'[id][f] = store[id][f]
                    /\ \A other \in DOMAIN store \ {id} : store'[other] = store[other]
                    /\ nextId' = nextId
              /\ (~owned /\ JoiValid(value)) =>
                    /\ resp'.status = 404
                    /\ store' = store
                    /\ nextId' = nextId]_vars

\* an expense the categorizer labelled, next to another expense, has just
\* been updated with the update body
C19_Witness ==
    /\ resp.op = "put"
    /\ resp.status = 200
    /\ resp.body = Some(UpdateBody)
    /\ resp.id \in DOMAIN store
    /\ store[resp.id].aiCategorized
    /\ IsSome(store[resp.id].confidenceScore)
    /\ store[resp.id].name = NameGas
    /\ store[resp.id].subcategory = Some(<<"c", "a", "r">>)
    /\ store[resp.id].notes = None
    /\ Cardinality(DOMAIN store) = 2

\* the ids of the expenses that were created and then deleted
DeletedIds == {id \in 1..(nextId - 1) : id \notin DOMAIN store}

\* the expenses other than id, as they are after the step
RestOfNext(id) == [i \in DOMAIN store' \ {id} |-> store'[i]]

\* a DELETE of an expense of the requester removes it and nothing else
DeleteRemovesOne ==
    (/\ resp'.op = "delete"
     /\ resp'.id \in DOMAIN store
     /\ store[resp'.id].userId = resp'.user) =>
        /\ resp'.status = 200
        /\ resp'.id \notin DOMAIN store'
        /\ DOMAIN store' = DOMAIN store \ {resp'.id}
        /\ \A other \in DOMAIN store' : store'[other] = store[other]

\* a deleted expense never comes back, under its id or in a list
DeletedStaysDeleted ==
    /\ DeletedIds \subseteq DeletedIds'
    /\ resp'.op = "get" =>
          \A i \in DOMAIN resp'.data : resp'.data[i] \notin DeletedIds'

\* deleting the expense a POST has just created gives back the expenses
\* there were before the POST
CreateThenDeleteRestores ==
    (resp'.op \in {"post", "upload"} /\ DOMAIN store' # DOMAIN store) =>
        /\ resp'.id \in DOMAIN store' \ DOMAIN store
        /\ RestOfNext(resp'.id) = store

\* C20 as stated: after a DELETE succeeded, the expense is gone from the
\* list, the other expenses are unchanged, and every later PUT or DELETE on
\* its id is answered 404.
C20_AsStated ==
    [][/\ DeleteRemovesOne
       /\ DeletedStaysDeleted
       /\ CreateThenDeleteRestores
       /\ (resp'.op \in {"put", "delete"} /\ resp'.id \in DeletedIds) =>
             (resp'.status = 404 /\ store' = store)]_vars

\* C20: after a DELETE succeeded, the expense is gone from the list, the
\* other expenses are unchanged, and a later PUT or DELETE on its id changes
\* nothing and is answered 404, or 400 when it is a PUT whose body fails the
\* request's validation; a create followed by the delete of the created id
\* restores the previous expenses.
C20_DeleteIsFinal ==
    [][/\ DeleteRemovesOne
       /\ DeletedStaysDeleted
       /\ CreateThenDeleteRestores
       /\ (resp'.op \in {"put", "delete"} /\ resp'.id \in DeletedIds) =>
             /\ store' = store
             /\ resp'.status =
                   IF resp'.op = "put" /\ ~JoiValid(NormalizeBody(Get(resp'.body)))
                   THEN 400 ELSE 404]_vars

\* the first of two expenses was deleted, and a later valid PUT on its id by
\* the same user was answered 404 with the second expense still stored
C20_Witness ==
    /\ resp.op = "put"
    /\ resp.id = 1
    /\ resp.status = 404
    /\ JoiValid(NormalizeBody(Get(resp.body)))
    /\ DeletedIds = {1}
    /\ DOMAIN store = {2}
    /\ store[2].userId = resp.user

\* the categories an expense may be stored with
StoredCategories ==
    {"food", "transport", "utilities", "entertainment", "shopping",
     "healthcare", "education", "other"}

\* every stored expense has a category of the closed set and an amount from
\* 0 to 999999.99
StoreWithinSchema ==
    \A id \in DOMAIN store :
        /\ store[id].category \in StoredCategories
        /\ store[id].amount >= 0
        /\ store[id].amount <= Cents(1000000) - 1

\* the step answers a create or an update whose body asks for a category
\* outside the closed set (for a create, other than 'auto') or for an amount
\* outside the range
AsksForUnstorable ==
    /\ resp'.op \in {"post", "put"}
    /\ LET b == Get(resp'.body)
       IN  \/ b.category \notin StoredCategories \cup {"auto"}
           \/ resp'.op = "put" /\ b.category = "auto"
           \/ b.amount < 0
           \/ b.amount > Cents(1000000) - 1

\* C25: after any sequence of create, upload, update and delete requests
\* every stored expense has a category of the closed set and an amount from
\* 0 to 999999.99; a request that would store anything else, such as a PUT
\* with category 'auto' or with an unknown category, is answered with an
\* error and leaves the store unchanged.
C25_StoreWithinSchema ==
    /\ []StoreWithinSchema
    /\ [][AsksForUnstorable =>
            /\ resp'.status \in {400, 404, 500}
            /\ store' = store
            /\ nextId' = nextId]_vars

\* a PUT with category 'auto' on an expense of the requester was refused
C25_Witness ==
    /\ resp.op = "put"
    /\ resp.status = 500
    /\ Get(resp.body).category = "auto"
    /\ resp.id \in DOMAIN store
    /\ store[resp.id].userId = resp.user
    /\ store[resp.id].category \in StoredCategories

\* C26: whenever the text extraction of an uploaded receipt succeeds, the
\* upload is answered with success and exactly one expense is added for the
\* requester, with category 'other', an amount from 0 to 999999.99, the
\* parsed merchant as its name and the parsed items joined by ', ' as its
\* notes, whatever the extracted text is.
C26_UploadAlwaysSaves ==
    [][(resp'.op = "upload" /\ IsSome(resp'.ocrData)) =>
          /\ resp'.status = 200
          /\ DOMAIN store' = DOMAIN store \cup {resp'.id}
          /\ resp'.id \notin DOMAIN store
          /\ \A id \in DOMAIN store : store'[id] = store[id]
          /\ LET saved == store'[resp'.id]
                 ocr == Get(resp'.ocrData)
             IN  /\ saved.userId = resp'.user
                 /\ saved.category = "other"
                 /\ saved.amount >= 0
                 /\ saved.amount <= Cents(1000000) - 1
                 /\ saved.name = ocr.merchant
                 /\ saved.notes = Some(JoinItems(ocr.items))]_vars

\* C30: whatever text the language model returns to POST
\* /api/ai/semantic-search (a number that is no index, zero, a negative
\* or hexadecimal number, no number at all), the request is answered 200 and
\* every result is an expense of the requester.
C30_AnsweredSearchIsScoped ==
    (resp.op = "search" /\ IsSome(resp.llmText)) =>
        /\ resp.status = 200
        /\ \A i \in DOMAIN resp.data :
              /\ resp.data[i] \in DOMAIN store
              /\ store[resp.data[i]].userId = resp.user

\* the model named the indices 0x2, 3 and -1 to a requester who has one
\* expense, while the collection holds an expense of the other user; and
\* it named 1
C30_Witness ==
    /\ resp.op = "search"
    /\ resp.status = 200
    /\ IsSome(resp.llmText)
    /\ \E id \in DOMAIN store : store[id].userId # resp.user
    /\ \/ /\ Get(resp.llmText) \in {<<"0", "x", "2">>, <<"3">>, <<"-", "1">>}
          /\ resp.data = <<>>
       \/ /\ Get(resp.llmText) = <<"1">>
          /\ Len(resp.data) = 1
(***************************************************************************)
(* SpecAnomaly: one POST /api/expenses on a collection that already holds  *)
(* a history.                                                              *)
(***************************************************************************)
\* the most documents of a generated history
MaxSeed == 6

SeedDoc(userId, category, amount, day) ==
    [userId |-> userId, name |-> NameXyz, amount |-> amount,
     category |-> category, subcategory |-> None, date |-> Some(day),
     notes |-> None, receiptImageUrl |-> None, ocrData |-> None,
     aiCategorized |-> FALSE, confidenceScore |-> None, isAnomaly |-> FALSE]

\* the documents the generated histories are made of: two of alice's food
\* expenses inside the window (one on its first day), one before the
\* window, one of bob's and one of another category
SeedDocs ==
    <<SeedDoc("alice", "food", Cents(10), RecentDay),
      SeedDoc("alice", "food", Cents(12), Day0 - WindowDays),
      SeedDoc("alice", "food", Cents(50), Day0 - WindowDays - 1),
      SeedDoc("bob", "food", Cents(50), RecentDay),
      SeedDoc("alice", "transport", Cents(50), RecentDay)>>

\* the sequences of n indices into SeedDocs, from lo on, in order: one for
\* each collection of n seed documents
RECURSIVE Histories(_, _)
Histories(n, lo) ==
    IF n = 0 THEN {<<>>}
    ELSE UNION {{<<i>> \o rest : rest \in Histories(n - 1, i)} :
                    i \in lo..Len(SeedDocs)}

ExampleHistory ==
    [i \in 1..5 |->
        SeedDoc("alice", "food", <<Cents(10), Cents(12), Cents(11), Cents(13), Cents(9)>>[i],
                RecentDay)]

SeedStores ==
    {[i \in DOMAIN h |-> SeedDocs[h[i]]] :
        h \in UNION {Histories(n, 1) : n \in 0..MaxSeed}}
        \cup {ExampleHistory}

AnomBodies ==
    {[BaseBody EXCEPT !.amount = a] : a \in {Cents(10), Cents(11), Cents(20), Cents(50)}}
        \cup {AutoBody, AutoNotesBody, ShortAutoBody, [BaseBody EXCEPT !.category = "groceries"],
              [BaseBody EXCEPT !.amount = 0]}

InitAnomaly ==
    /\ store \in SeedStores
    /\ nextId = Len(store) + 1
    /\ now = Day0
    /\ resp = NoResponse
    /\ CatIdle
    /\ ParseIdle
    /\ MlIdle
    /\ OcrIdle
    /\ ClientIdle

PostOnHistory ==
    /\ resp.op = "none"
    /\ \E u \in Users, b \in AnomBodies :
          \E catThrows \in CatOutcomes(b), a \in AnomOutcomesFor(b) :
              PostExpense(u, b, catThrows, a)
    /\ UNCHANGED <<now, catIn, catOut, rawText, parsed, ml, ocrService, client>>

NextAnomaly == PostOnHistory

SpecAnomaly == InitAnomaly /\ [][NextAnomaly]_vars

\* the body's own fields pass the request's schema and the validators of
\* the Expense model
PassesValidation(b) ==
    LET v == NormalizeBody(b)
    IN  /\ JoiValid(v)
        /\ trim(v.name) # <<>>
        /\ v.category \in CategoryEnum \cup {"auto"}
        /\ IsSome(v.receiptImageUrl) => Get(v.receiptImageUrl).length <= MaxUrlLength

\* C1: a POST /api/expenses whose body passes validation is answered 201
\* and saved also when categorization or anomaly detection fails: with
\* category 'other' and aiCategorized false after a failed categorization,
\* with isAnomaly false after a failed anomaly detection.
C1_FailuresDoNotBlockSave ==
    (/\ resp.op = "post"
     /\ PassesValidation(Get(resp.body))
     /\ resp.catFailed \/ resp.anomFailed) =>
        /\ resp.status = 201
        /\ resp.id \in DOMAIN store
        /\ store[resp.id].userId = resp.user
        /\ resp.catFailed =>
              (store[resp.id].category = "other" /\ ~store[resp.id].aiCategorized)
        /\ resp.anomFailed => ~store[resp.id].isAnomaly

C1_Witness ==
    /\ resp.op = "post"
    /\ resp.catFailed
    /\ resp.anomFailed
    /\ resp.status = 201
    /\ store[resp.id].category = "other"

\* the expenses of the user and category that lie in the 90 days before now
InWindow(docs, userId, category) ==
    {id \in DOMAIN docs :
        /\ docs[id].userId = userId
        /\ docs[id].category = category
        /\ now - Get(docs[id].date) <= 90}

\* C9: detectAnomalies answers isAnomaly = false whenever the user has
\* fewer than 5 expenses of the category dated in the trailing 90 days,
\* whatever the new amount.
C9_FewerThanFiveNeverAnomalous ==
    [][(/\ resp'.op = "post"
        /\ IsSome(resp'.anomaly)
        /\ Cardinality(InWindow(store, resp'.user, resp'.category)) < 5)
           => ~Get(resp'.anomaly).isAnomaly]_vars

\* a request whose user has six expenses of the category, fewer than five
\* of them in the window
C9_Witness ==
    /\ resp.op = "post"
    /\ resp.status = 201
    /\ ~resp.anomFailed
    /\ Get(resp.anomaly).reason = "Insufficient data"
    /\ Cardinality({id \in DOMAIN store \ {resp.id} :
                       /\ store[id].userId = resp.user
                       /\ store[id].category = resp.category}) = 6
    /\ store[resp.id].amount = Cents(50)

\* the expenses of the requester and of the created expense's category,
\* other than the created one, dated in the 90 days before now
EarlierInWindow ==
    {id \in DOMAIN store \ {resp.id} :
        /\ store[id].userId = resp.user
        /\ store[id].category = store[resp.id].category
        /\ IsSome(store[id].date)
        /\ now - Get(store[id].date) <= 90}

\* C29: POST /api/expenses reads the anomaly baseline before it saves, so
\* the created expense is not in its own baseline; an expense created as
\* one of the first five of its user and category in the 90-day window
\* is persisted with isAnomaly = false.
C29_FirstFiveNeverFlagged ==
    (resp.op = "post" /\ resp.status = 201) =>
        /\ resp.id \notin resp.baseline
        /\ ~resp.anomFailed => resp.baseline = EarlierInWindow
        /\ Cardinality(EarlierInWindow) < 5 => ~store[resp.id].isAnomaly

\* the fifth expense of the category in the window, far from the other
\* four
C29_Witness ==
    /\ resp.op = "post"
    /\ resp.status = 201
    /\ ~resp.anomFailed
    /\ Cardinality(EarlierInWindow) = 4
    /\ Cardinality(resp.baseline) = 4
    /\ store[resp.id].amount = Cents(50)
    /\ \A id \in EarlierInWindow : store[id].amount <= Cents(12)
    /\ ~store[resp.id].isAnomaly

\* the request of the example: amount 20 on the history 10, 12, 11, 13, 9
ExampleRequest ==
    /\ resp.op = "post"
    /\ resp.status = 201
    /\ ~resp.anomFailed
    /\ resp.user = "alice"
    /\ resp.category = "food"
    /\ store[resp.id].amount = Cents(20)
    /\ Without(store, resp.id) = ExampleHistory

\* x, in hundredths, lies within tolerance of target
About(x, target, tolerance) == x >= target - tolerance /\ x <= target + tolerance

\* C10 as stated: on the history 10, 12, 11, 13, 9 and the amount 20 the
\* mean is 11, the standard deviation about 1.58, the zScore about 5.7, and
\* isAnomaly is true.
C10_AsStated ==
    ExampleRequest =>
        LET r == Get(resp.anomaly)
        IN  /\ Get(r.mean) = Rat(Cents(11), 1)
            /\ About(FloorScaled(Get(r.stdDev), 1), 158, 5)
            /\ About(FloorScaled(Get(r.zScore), 100), 570, 10)
            /\ r.isAnomaly

\* C10: on the history 10, 12, 11, 13, 9 and the amount 20 the mean is 11,
\* the (population) standard deviation is 1.41 and the zScore 6.36, to two
\* decimals, and isAnomaly is true.
C10_PopulationDeviation ==
    ExampleRequest =>
        LET r == Get(resp.anomaly)
        IN  /\ Get(r.mean) = Rat(Cents(11), 1)
            /\ FloorScaled(Get(r.stdDev), 1) = 141
            /\ FloorScaled(Get(r.zScore), 100) = 636
            /\ r.isAnomaly

C10_Witness ==
    /\ ExampleRequest
    /\ Get(resp.anomaly).isAnomaly

\* the expense a POST answered 201 has saved, and the request's value
Persisted == store[resp.id]

Requested == NormalizeBody(Get(resp.body))

\* what categorize answers for the request's name, amount and notes
Categorized ==
    categorize(Requested.name, Requested.amount, TextOf(Requested.notes))

MaxMonths == 6

\* the longest forecast asked for
MaxHorizon == 3

\* a day in the middle of month m
MonthDay(m) == MonthStart(m) + 14

\* the month before today's
LastMonth == MonthOf(Day0) - 1

MonthlyAmounts == {Cents(10), Cents(30), Cents(50)}

\* the sequences of at most MaxMonths monthly totals
MonthlyTotals == UNION {[1..n -> MonthlyAmounts] : n \in 0..MaxMonths}

\* the strictly increasing sequences of n totals that start at 1 and grow
\* by 1, 10 or 40 a month
RECURSIVE RisingTotals(_)
RisingTotals(n) ==
    IF n = 1 THEN {<<Cents(1)>>}
    ELSE {Append(t, t[Len(t)] + step) :
            t \in RisingTotals(n - 1), step \in {Cents(1), Cents(10), Cents(40)}}

\* one expense of alice's on food in each of the months up to last month
MonthlyStore(t) ==
    [i \in DOMAIN t |->
        SeedDoc("alice", "food", t[i], MonthDay(LastMonth - Len(t) + i))]

\* two expenses in one month, one on the first day of the window and one
\* the day before it, one of bob's and one of another category
MixedStore ==
    <<SeedDoc("alice", "food", Cents(10), Day0 - ForecastWindowDays),
      SeedDoc("alice", "food", Cents(50), Day0 - ForecastWindowDays - 1),
      SeedDoc("alice", "food", Cents(10), MonthDay(LastMonth - 1)),
      SeedDoc("alice", "food", Cents(30), MonthDay(LastMonth - 1) + 1),
      SeedDoc("alice", "food", Cents(50), MonthDay(LastMonth)),
      SeedDoc("bob", "food", Cents(50), MonthDay(LastMonth - 2)),
      SeedDoc("alice", "transport", Cents(50), MonthDay(LastMonth - 3))>>

ForecastStores ==
    {MonthlyStore(t) : t \in MonthlyTotals \cup RisingTotals(HighConfidenceBuckets)}
        \cup {MixedStore}

CallAmounts == {Cents(10), Cents(20), Cents(50)}

InitMl ==
    /\ store \in SeedStores \cup ForecastStores
    /\ nextId = Len(store) + 1
    /\ now = Day0
    /\ resp = NoResponse
    /\ CatIdle
    /\ ParseIdle
    /\ MlIdle
    /\ OcrIdle
    /\ ClientIdle

\* a query that removes what it reads
Emptied(docs) == <<>>

\* what a query leaves of the collection it reads
AfterRead(docs) == docs

DetectCall ==
    /\ ml.op = "none"
    /\ \E u \in Users, a \in CallAmounts, queryFails \in BOOLEAN :
          ml' = [NoCall EXCEPT
                    !.op = "detect", !.user = u, !.category = "food",
                    !.amount = a, !.failed = queryFails,
                    !.anomaly = detectAnomalies(store, now, u, a, "food", queryFails)]
    /\ store' = AfterRead(store)
    /\ UNCHANGED <<nextId, now, resp, catIn, catOut, rawText, parsed, ocrService, client>>

ForecastCall ==
    /\ ml.op = "none"
    /\ \E u \in Users, h \in 0..MaxHorizon, queryFails \in BOOLEAN :
          ml' = [NoCall EXCEPT
                    !.op = "forecast", !.user = u, !.category = "food",
                    !.months = h, !.failed = queryFails,
                    !.forecast = forecastExpenses(store, now, u, "food", h, queryFails)]
    /\ store' = AfterRead(store)
    /\ UNCHANGED <<nextId, now, resp, catIn, catOut, rawText, parsed, ocrService, client>>

NextMl == DetectCall \/ ForecastCall

SpecMl == InitMl /\ [][NextMl]_vars

\* C11: a detectAnomalies whose query fails returns isAnomaly false with
\* reason 'Detection failed', and a forecastExpenses whose aggregation fails
\* returns an empty forecast with confidence 'low'; neither throws.
C11_FailuresDegrade ==
    /\ (ml.op = "detect" /\ ml.failed) =>
          /\ ~ml.anomaly.isAnomaly
          /\ ml.anomaly.reason = "Detection failed"
          /\ ml.anomaly.zScore = None
    /\ (ml.op = "forecast" /\ ml.failed) =>
          /\ ml.forecast.forecast = <<>>
          /\ ml.forecast.confidence = "low"

C11_Witness ==
    /\ ml.op = "forecast"
    /\ ml.failed
    /\ ml.months = 3
    /\ Len(store) = HighConfidenceBuckets

\* a number that is a real number of at least 0
IsRealAtLeastZero(x) ==
    \/ x.kind = "sqrt" /\ x.n >= 0 /\ x.d > 0
    \/ x.kind = "finite" /\ x.n >= 0

\* C12: a zScore that detectAnomalies returns is a real number of at least
\* 0, also when all the amounts of the history are the same.
C12_ZScoreIsReal ==
    (ml.op = "detect" /\ IsSome(ml.anomaly.zScore)) =>
        IsRealAtLeastZero(Get(ml.anomaly.zScore))

\* the calendar months in which the caller has an expense of the category
\* dated in the 360 days before now
MonthsWithData ==
    {MonthOf(Get(store[id].date)) :
        id \in {i \in DOMAIN store :
                    /\ store[i].userId = ml.user
                    /\ store[i].category = ml.category
                    /\ now - Get(store[i].date) <= 360}}

\* C13: forecastExpenses returns an empty forecast with confidence 'low'
\* whenever the data of the trailing 360 days falls into fewer than 3
\* calendar months.
C13_FewBucketsNoForecast ==
    (ml.op = "forecast" /\ Cardinality(MonthsWithData) < 3) =>
        /\ ml.forecast.forecast = <<>>
        /\ ml.forecast.confidence = "low"

C13_Witness ==
    /\ ml.op = "forecast"
    /\ ~ml.failed
    /\ ml.months = 3
    /\ Cardinality(MonthsWithData) = 2

\* the i-th of the months with data, in the order of the calendar
NthMonth(i) ==
    CHOOSE m \in MonthsWithData :
        Cardinality({x \in MonthsWithData : x < m}) = i - 1

\* the total of the caller's expenses of the category in month m
TotalOfMonth(m) ==
    SumOfIds(store, {i \in DOMAIN store :
                        /\ store[i].userId = ml.user
                        /\ store[i].category = ml.category
                        /\ now - Get(store[i].date) <= 360
                        /\ MonthOf(Get(store[i].date)) = m})

\* the monthly totals the forecast is made from, oldest first
ObservedTotals ==
    [i \in 1..Cardinality(MonthsWithData) |-> TotalOfMonth(NthMonth(i))]

StrictlyIncreasing(t) == \A i \in 1..(Len(t) - 1) : t[i] < t[i + 1]

ConstantStep(t) == \A i \in 1..(Len(t) - 2) : t[i + 1] - t[i] = t[i + 2] - t[i + 1]

RECURSIVE SumSeq(_)
SumSeq(t) == IF t = <<>> THEN 0 ELSE t[1] + SumSeq(Tail(t))

\* a forecast of at least one month made from 6 strictly increasing totals
SixRisingTotals ==
    /\ ml.op = "forecast"
    /\ ~ml.failed
    /\ ml.months >= 1
    /\ Len(ObservedTotals) = 6
    /\ StrictlyIncreasing(ObservedTotals)

\* C14 as stated: from 6 strictly increasing monthly totals the confidence
\* is 'high' and the first predicted amount is above the last total.
C14_AsStated ==
    SixRisingTotals =>
        /\ ml.forecast.confidence = "high"
        /\ NumGreater(ml.forecast.forecast[1].predictedAmount,
                      Rat(ObservedTotals[6], 1))

\* C14: from 6 strictly increasing monthly totals the confidence is 'high'
\* and the first predicted amount is above the mean of the totals; it is
\* above the last total when the totals grow by the same step every month.
C14_RisingTrend ==
    SixRisingTotals =>
        /\ ml.forecast.confidence = "high"
        /\ NumGreater(ml.forecast.forecast[1].predictedAmount,
                      Rat(SumSeq(ObservedTotals), 6))
        /\ ConstantStep(ObservedTotals) =>
              NumGreater(ml.forecast.forecast[1].predictedAmount,
                         Rat(ObservedTotals[6], 1))

C14_Witness ==
    /\ SixRisingTotals
    /\ ConstantStep(ObservedTotals)
    /\ ml.months = 3

\* the sums, over the indices x = 0..n-1 of the totals t, of
\* (2x - (n-1)) * (n * t - sum) and of (2x - (n-1)) squared: 2n times the
\* covariance of index and total, and 4 times the variance of the index
RECURSIVE CenteredXY(_, _)
CenteredXY(t, i) ==
    IF i = 0 THEN 0
    ELSE CenteredXY(t, i - 1)
            + (2 * (i - 1) - (Len(t) - 1)) * (Len(t) * t[i] - SumSeq(t))

RECURSIVE CenteredXX(_, _)
CenteredXX(n, i) ==
    IF i = 0 THEN 0
    ELSE CenteredXX(n, i - 1) + (2 * (i - 1) - (n - 1)) * (2 * (i - 1) - (n - 1))

\* the least-squares line of the totals t against the indices 0..n-1, at
\* index k: mean + covariance / variance * (k - mean index)
LeastSquaresAt(t, k) ==
    LET n == Len(t)
    IN  Rat(SumSeq(t) * CenteredXX(n, n) + CenteredXY(t, n) * (2 * k - n + 1),
            n * CenteredXX(n, n))

\* C15: from n >= 3 monthly buckets and for a horizon of h months,
\* forecastExpenses returns h points, the i-th being the least-squares line
\* of the totals at index n + i - 1, or 0 where the line is below 0, with
\* confidence 'high' from 6 buckets on and 'medium' below.
C15_LeastSquaresForecast ==
    (ml.op = "forecast" /\ ~ml.failed /\ Len(ObservedTotals) >= 3) =>
        LET n == Len(ObservedTotals)
            line(i) == LeastSquaresAt(ObservedTotals, n + i - 1)
        IN  /\ Len(ml.forecast.forecast) = ml.months
            /\ \A i \in 1..ml.months :
                  ml.forecast.forecast[i].predictedAmount =
                      (IF line(i).n < 0 THEN Rat(0, 1) ELSE line(i))
            /\ ml.forecast.confidence = (IF n >= 6 THEN "high" ELSE "medium")

C15_Witness ==
    /\ ml.op = "forecast"
    /\ ~ml.failed
    /\ ml.months = 3
    /\ ObservedTotals = <<Cents(50), Cents(30), Cents(10)>>
    /\ ml.forecast.forecast[1].predictedAmount = Rat(0, 1)

\* C17: a call of detectAnomalies or of forecastExpenses, whether it
\* answers or its query fails, leaves the persisted expenses as they were.
C17_CallsOnlyRead ==
    [][ml'.op \in {"detect", "forecast"} => store' = store]_vars

C17_Witness ==
    /\ ml.op = "detect"
    /\ ml.failed
    /\ Len(store) = MinHistory

(***************************************************************************)
(* SpecCat: categorize applied to every input of the bounded sets.         *)
(***************************************************************************)
InitCat ==
    /\ ServerIdle
    /\ catIn \in [name : CatNames, amount : CatAmounts, notes : CatNotes]
    /\ catOut = NotCategorized
    /\ ParseIdle
    /\ MlIdle
    /\ OcrIdle
    /\ ClientIdle

Categorize ==
    /\ ~catOut.called
    /\ LET r == categorize(catIn.name, catIn.amount, catIn.notes)
       IN  catOut' = [called |-> TRUE, category |-> r.category,
                      confidence |-> r.confidence]
    /\ UNCHANGED <<store, nextId, now, resp, catIn, rawText, parsed, ml, ocrService, client>>

NextCat == Categorize

SpecCat == InitCat /\ [][NextCat]_vars

\* the words of name + ' ' + notes that calculateTFIDF counts
CatWords == SelectLonger(split(toLowerCase(catIn.name \o <<" ">> \o catIn.notes)), 2)

\* some word of the input is a keyword of some category
KeywordMatched ==
    \E i \in DOMAIN CatWords, j \in DOMAIN CategoryOrder :
        CatWords[i] \in Range(categories(CategoryOrder[j]))

\* C6: categorize always returns a category of the closed set and a
\* confidence that is a real number between 0 and 1, also for a text with
\* no word longer than 2 characters.
C6_CategorizerTotal ==
    catOut.called =>
        /\ catOut.category \in CategoryEnum
        /\ IsFinite(catOut.confidence)
        /\ ~NumLess(catOut.confidence, Rat(0, 1))
        /\ ~NumGreater(catOut.confidence, Rat(1, 1))

C6_Witness ==
    /\ catOut.called
    /\ catIn.name = NameShort
    /\ catIn.notes = <<>>
    /\ CatWords = <<>>

\* C7: when no word of name + notes is a keyword, the returned category is
\* the amount band's: food below 20, shopping below 100, utilities below
\* 500, other from 500.
C7_NoMatchFallsBack ==
    (catOut.called /\ ~KeywordMatched) =>
        catOut.category = AmountBand(catIn.amount)

\* C8: categorize("Uber ride home", 22, "") is transport with a confidence
\* above 0.
C8_UberIsTransport ==
    (/\ catOut.called
     /\ catIn = [name |-> NameUber, amount |-> Cents(22), notes |-> <<>>]) =>
        /\ catOut.category = "transport"
        /\ NumGreater(catOut.confidence, Rat(0, 1))

C8_Witness ==
    /\ catOut.called
    /\ catIn = [name |-> NameUber, amount |-> Cents(22), notes |-> <<>>]


\* the least number of a non-empty set of numbers
Least(S) == CHOOSE x \in S : \A y \in S : x <= y

\* the categories that are scored, in the order of the table
ScoredOrder ==
    <<"food", "transport", "utilities", "entertainment", "shopping",
      "healthcare", "education">>

\* the share of the counted words that are keywords of the category, plus
\* the amount bonus of the category
StatedScore(words, amount, category) ==
    LET matching == Cardinality({i \in DOMAIN words :
                                    words[i] \in Range(categories(category))})
        bonus == IF \/ category = "food" /\ amount < Cents(100)
                    \/ category = "transport" /\ amount < Cents(50)
                    \/ category = "utilities" /\ amount > Cents(50)
                 THEN Rat(1, 10) ELSE Rat(0, 1)
    IN  NumAdd(Rat(matching, Len(words)), bonus)

\* the seven scores, in the order of the table
StatedScores(words, amount) ==
    [k \in DOMAIN ScoredOrder |-> StatedScore(words, amount, ScoredOrder[k])]

\* the largest of the scores
LargestScore(scores) ==
    scores[CHOOSE k \in DOMAIN scores :
              \A j \in DOMAIN scores : ~NumGreater(scores[j], scores[k])]

\* C24: when the best score is at least 0.1, categorize returns the first
\* category, in the order food, transport, utilities, entertainment,
\* shopping, healthcare, education, whose share of matching words plus
\* amount bonus is the largest, with confidence min(2 x that score, 1).
C24_FirstBestCategory ==
    (catOut.called /\ CatWords # <<>>) =>
        LET scores == StatedScores(CatWords, catIn.amount)
            best == LargestScore(scores)
        IN  ~NumLess(best, Rat(1, 10)) =>
               /\ catOut.category =
                     ScoredOrder[Least({k \in DOMAIN scores : scores[k] = best})]
               /\ catOut.confidence = NumMin(NumAdd(best, best), Rat(1, 1))

\* "gas" for 50: transport and utilities both score 1, the first of them
\* was returned
C24_Witness ==
    /\ catOut.called
    /\ catIn = [name |-> <<"g", "a", "s">>, amount |-> Cents(50), notes |-> <<>>]
    /\ StatedScores(CatWords, catIn.amount)[2] = Rat(1, 1)
    /\ StatedScores(CatWords, catIn.amount)[3] = Rat(1, 1)
    /\ LargestScore(StatedScores(CatWords, catIn.amount)) = Rat(1, 1)
    /\ catOut.category = "transport"
(***************************************************************************)
(* SpecParse: parseReceiptData applied to every text of the bounded set.   *)
(***************************************************************************)
\* the longest generated receipt text
MaxTextLen == 4

ParseAlphabet == {"0", "1", "$", ".", "/", "a", " ", "\n"}

ParseTexts ==
    {ReceiptTotals, ReceiptCafe, ReceiptBadDate, ReceiptIsoDate, ReceiptWords,
     ReceiptManyItems, ReceiptLateShop, ReceiptShortGas, ReceiptShortYear}
        \cup StringsUpTo(ParseAlphabet, MaxTextLen)

InitParse ==
    /\ ServerIdle
    /\ CatIdle
    /\ rawText \in ParseTexts
    /\ parsed = NotParsed
    /\ MlIdle
    /\ OcrIdle
    /\ ClientIdle

ParseReceipt ==
    /\ ~parsed.called
    /\ LET r == parseReceiptData(rawText)
       IN  parsed' = [called |-> TRUE, merchant |-> r.merchant,
                      amount |-> r.amount, date |-> r.date, items |-> r.items,
                      rawText |-> r.rawText]
    /\ UNCHANGED <<store, nextId, now, resp, catIn, catOut, rawText, ml, ocrService, client>>

NextParse == ParseReceipt

SpecParse == InitParse /\ [][NextParse]_vars

IsLeapYear(y) == y % 4 = 0 /\ (y % 100 # 0 \/ y % 400 = 0 \/ y < 100)

DaysInMonth(y, m) ==
    IF m = 2 THEN (IF IsLeapYear(y) THEN 29 ELSE 28)
    ELSE IF m \in {4, 6, 9, 11} THEN 30 ELSE 31

IsDayOfYear(y, m, d) == m \in 1..12 /\ d \in 1..DaysInMonth(y, m)

\* a date string denotes a calendar date: year-month-day when it starts with
\* four digits, otherwise month-day-year or day-month-year
IsCalendarDate(d) ==
    LET f == DateFieldsFrom(d, 1, <<>>)
        v(k) == DigitsValue(f[k], 0)
    IN  /\ Len(f) = 3
        /\ \A k \in 1..3 : f[k] # <<>> /\ Range(f[k]) \subseteq Digits
        /\ IF Len(f[1]) = 4 THEN IsDayOfYear(v(1), v(2), v(3))
           ELSE IsDayOfYear(v(3), v(1), v(2)) \/ IsDayOfYear(v(3), v(2), v(1))

\* C3: parseReceiptData returns, for every text, a non-empty merchant, an
\* amount of at least 0, a date string that denotes a calendar date and at
\* most 10 items.
C3_ParserTotal ==
    parsed.called =>
        /\ parsed.merchant # <<>>
        /\ IsFinite(parsed.amount)
        /\ ~NumLess(parsed.amount, Rat(0, 1))
        /\ IsCalendarDate(parsed.date)
        /\ Len(parsed.items) <= 10

\* the value of every match of the amount pattern in the lines of the text
AllTokenValues ==
    LET lines == ReceiptLines(rawText)
    IN  UNION {{parseFloat(StripNonNumeric(AmountMatches(lines[i], 1)[k])) :
                   k \in DOMAIN AmountMatches(lines[i], 1)} : i \in DOMAIN lines}

\* C4: the parsed amount is the largest value among the numeric tokens
\* (digits with an optional fraction, an optional currency symbol before
\* them) of all the lines, and "Total $45.00" with "Subtotal $40.00" parses
\* to 45.
C4_AmountIsLargestToken ==
    parsed.called =>
        /\ \A v \in AllTokenValues : ~NumGreater(v, parsed.amount)
        /\ AllTokenValues # {} => parsed.amount \in AllTokenValues
        /\ rawText = ReceiptTotals => parsed.amount = Rat(45, 1)

C4_Witness ==
    /\ parsed.called
    /\ rawText = ReceiptTotals
    /\ Cardinality(AllTokenValues) = 2

BusinessKeywords == {businessWords[k] : k \in DOMAIN businessWords}

\* the positions, among the first five lines, of the lines that hold a
\* business keyword in any case or have 6 to 49 characters
MerchantCandidates(lines) ==
    {i \in 1..5 :
        /\ i <= Len(lines)
        /\ \/ \E w \in BusinessKeywords : Includes(toLowerCase(lines[i]), w)
           \/ Len(lines[i]) \in 6..49}

\* C21: the merchant is the first of the first five non-empty trimmed lines
\* that holds a business keyword (in any case) or has 6 to 49 characters,
\* and "Unknown Merchant" when there is no such line; a keyword on the sixth
\* line, after five short lines, is not looked at.
C21_MerchantIsFirstCandidate ==
    parsed.called =>
        LET lines == ReceiptLines(rawText)
            found == MerchantCandidates(lines)
        IN  /\ IF found = {} THEN parsed.merchant = UnknownMerchant
               ELSE parsed.merchant = lines[Least(found)]
            /\ rawText = ReceiptLateShop => parsed.merchant = UnknownMerchant

\* a short line with a keyword in capitals was taken before a longer line
C21_Witness ==
    /\ parsed.called
    /\ rawText = ReceiptShortGas
    /\ parsed.merchant = <<"G", "A", "S">>
    /\ MerchantCandidates(ReceiptLines(rawText)) = {2, 3}

\* a line the items rule keeps as the rule is stated: 3 to 99 characters, no
\* non-item keyword at its start, not only digits, currency symbols, dots
\* and whitespace
StatedItem(line) ==
    /\ Len(line) \in 3..99
    /\ ~\E k \in DOMAIN NonItemWords : StartsWith(toLowerCase(line), NonItemWords[k])
    /\ \E k \in DOMAIN line :
          ~(line[k] \in Digits \cup CurrencySymbols \cup {"."} \/ IsSpace(line[k]))

\* C22: the items are, in the order of the lines and capped at the first 10,
\* exactly the lines of 3 to 99 characters that do not start with a non-item
\* keyword and are not made of digits, currency symbols, dots and whitespace
\* only; a line of exactly 3 characters that passes the other tests is kept.
C22_ItemsAsStated ==
    parsed.called =>
        parsed.items = Slice(SelectSeq(ReceiptLines(rawText), StatedItem), 10)

AllDigits(f) == f # <<>> /\ Range(f) \subseteq Digits

\* tok is day or month, separator, day or month, separator, year of one of
\* the given lengths; or a year of 4 digits, separator, month, separator, day
IsDateShaped(tok, yearLengths) ==
    LET f == DateFieldsFrom(tok, 1, <<>>)
    IN  /\ Len(f) = 3
        /\ \A k \in 1..3 : AllDigits(f[k])
        /\ \/ Len(f[1]) \in 1..2 /\ Len(f[2]) \in 1..2 /\ Len(f[3]) \in yearLengths
           \/ Len(f[1]) = 4 /\ Len(f[2]) \in 1..2 /\ Len(f[3]) \in 1..2

\* the positions of a line where a date-shaped token starts
TokenStarts(line, yearLengths) ==
    {i \in DOMAIN line :
        \E j \in i..Len(line) : IsDateShaped(SubSeq(line, i, j), yearLengths)}

\* the longest date-shaped token at the leftmost position that has one
FirstToken(line, yearLengths) ==
    LET i == Least(TokenStarts(line, yearLengths))
        ends == {j \in i..Len(line) : IsDateShaped(SubSeq(line, i, j), yearLengths)}
    IN  SubSeq(line, i, CHOOSE j \in ends : \A e \in ends : e <= j)

\* the date of the rule for the lines of a text: the first token of the
\* first line that has one, the day of the extraction when no line has
DateByRule(lines, yearLengths) ==
    LET with == {n \in DOMAIN lines : TokenStarts(lines[n], yearLengths) # {}}
    IN  IF with = {} THEN TodayIso
        ELSE FirstToken(lines[Least(with)], yearLengths)

\* C23 as stated: the date is the first token D[D] sep D[D] sep YY[YY] or
\* YYYY sep M[M] sep D[D] of the first line that has one, verbatim, and the
\* day of the extraction as YYYY-MM-DD when no line has one.
C23_AsStated ==
    parsed.called => parsed.date = DateByRule(ReceiptLines(rawText), {2, 4})

\* C23: the date is the first token D[D] sep D[D] sep Y, Y a year of 2, 3 or
\* 4 digits, or YYYY sep M[M] sep D[D], of the first line that has one,
\* verbatim, and the day of the extraction as YYYY-MM-DD when no line has
\* one.
C23_DateIsFirstToken ==
    parsed.called =>
        /\ parsed.date = DateByRule(ReceiptLines(rawText), {2, 3, 4})
        /\ IsDateShaped(TodayIso, {4})

\* the token of the second line was returned as it is written, though it
\* is no calendar date
C23_Witness ==
    /\ parsed.called
    /\ rawText = ReceiptBadDate
    /\ parsed.date = <<"9", "9", "/", "9", "9", "/", "9", "9">>

(***************************************************************************)
(* SpecOcr: concurrent uploads sharing the worker of the OCR service.      *)
(* Each step is the code a request runs between two awaits.                *)
(***************************************************************************)
InitOcr ==
    /\ ServerIdle
    /\ CatIdle
    /\ ParseIdle
    /\ MlIdle
    /\ OcrIdle
    /\ ClientIdle

\* upload r moves to position p, its pending call made on worker w
Moved(r, p, w) == [ocrService EXCEPT !.at[r] = p, !.on[r] = w]

\* if (!this.worker)
NeedsWorker(worker) == worker = 0

\* the rest of the state, which the OCR service does not touch
OcrFrame ==
    UNCHANGED <<store, nextId, now, resp, catIn, catOut, rawText, parsed,
                ml, client>>

\* extractText of a PDF: pdfParse, no worker
ParsePdf(r) ==
    /\ ocrService.running
    /\ ocrService.at[r] = "idle"
    /\ ocrService' = Moved(r, "pdf", 0)
    /\ OcrFrame

PdfParsed(r) ==
    /\ ocrService.running
    /\ ocrService.at[r] = "pdf"
    /\ ocrService' = Moved(r, "done", 0)
    /\ OcrFrame

\* extractText of an image up to the first await of initializeWorker:
\* createWorker() is called when there is no worker, this.worker is
\* returned otherwise
EnterInitialize(r) ==
    /\ ocrService.running
    /\ ocrService.at[r] = "idle"
    /\ ocrService' = IF NeedsWorker(ocrService.worker)
              THEN Moved(r, "creating", 0)
              ELSE Moved(r, "holding", ocrService.worker)
    /\ OcrFrame

\* createWorker() resolves: this.worker = the new worker, and loadLanguage
\* is called on it
WorkerCreated(r) ==
    /\ ocrService.running
    /\ ocrService.at[r] = "creating"
    /\ ocrService' = [Moved(r, "loading", ocrService.created + 1) EXCEPT
                  !.worker = ocrService.created + 1,
                  !.created = ocrService.created + 1]
    /\ OcrFrame

\* loadLanguage resolves, and initialize is called on this.worker as it is
\* now
LanguageLoaded(r) ==
    /\ ocrService.running
    /\ ocrService.at[r] = "loading"
    /\ ocrService' = [Moved(r, "initializing", ocrService.worker) EXCEPT
                  !.loaded = @ \cup {ocrService.on[r]}]
    /\ OcrFrame

\* initialize resolves, and initializeWorker returns this.worker as it is
\* now
WorkerInitialized(r) ==
    /\ ocrService.running
    /\ ocrService.at[r] = "initializing"
    /\ ocrService' = [Moved(r, "holding", ocrService.worker) EXCEPT
                  !.initialized = @ \cup {ocrService.on[r]}]
    /\ OcrFrame

\* worker.recognize(imageBuffer) is called on the worker the upload holds
Recognize(r) ==
    /\ ocrService.running
    /\ ocrService.at[r] = "holding"
    /\ ocrService' = Moved(r, "recognizing", ocrService.on[r])
    /\ OcrFrame

Recognized(r) ==
    /\ ocrService.running
    /\ ocrService.at[r] = "recognizing"
    /\ ocrService' = Moved(r, "done", 0)
    /\ OcrFrame

\* cleanup() at the exit of the process
Cleanup ==
    /\ ocrService.running
    /\ ocrService' = [ocrService EXCEPT !.running = FALSE, !.worker = 0]
    /\ OcrFrame

NextOcr ==
    \/ \E r \in Uploads : ParsePdf(r)
    \/ \E r \in Uploads : PdfParsed(r)
    \/ \E r \in Uploads : EnterInitialize(r)
    \/ \E r \in Uploads : WorkerCreated(r)
    \/ \E r \in Uploads : LanguageLoaded(r)
    \/ \E r \in Uploads : WorkerInitialized(r)
    \/ \E r \in Uploads : Recognize(r)
    \/ \E r \in Uploads : Recognized(r)
    \/ Cleanup

SpecOcr == InitOcr /\ [][NextOcr]_vars

\* C27: for any interleaving of concurrent uploads at most one worker is
\* created between cleanups, and no upload calls recognize on the worker
\* before loadLanguage and initialize have completed on it.
C27_OneInitializedWorker ==
    /\ ocrService.created <= 1
    /\ \A r \in Uploads :
          ocrService.at[r] = "recognizing" =>
              ocrService.on[r] \in ocrService.loaded \cap ocrService.initialized

(***************************************************************************)
(* SpecClient: the browser client's expenses list under semantic searches, *)
(* addExpense and deleteExpense.  Each step is the code the client runs    *)
(* between two awaits, or a timer callback.                                *)
(***************************************************************************)
\* the expense ids the client can see or create
MaxClientIds == 3

\* the semantic searches started
MaxSearches == 2

\* after loadUserData: the list shows the two expenses the user has
InitClient ==
    /\ ServerIdle
    /\ CatIdle
    /\ ParseIdle
    /\ MlIdle
    /\ OcrIdle
    /\ client = [NoClient EXCEPT !.expenses = {1, 2}, !.server = {1, 2}, !.nextId = 3]

ClientFrame ==
    UNCHANGED <<store, nextId, now, resp, catIn, catOut, rawText, parsed,
                ml, ocrService>>

\* addExpense up to its await: the POST reaches the server
AddSent ==
    /\ client.nextId <= MaxClientIds
    /\ client' = [client EXCEPT
                     !.server = @ \cup {client.nextId},
                     !.nextId = @ + 1,
                     !.inflight = @ \cup {[op |-> "add", id |-> client.nextId]}]
    /\ ClientFrame

\* addExpense after its await: expenses.unshift(response.data)
AddAnswered ==
    /\ \E m \in client.inflight :
          /\ m.op = "add"
          /\ client' = [client EXCEPT
                           !.expenses = @ \cup {m.id},
                           !.inflight = @ \ {m}]
    /\ ClientFrame

\* deleteExpense(id) of a listed expense up to its await: the DELETE
\* reaches the server
DeleteSent ==
    /\ \E id \in client.expenses \cap client.server :
          /\ [op |-> "delete", id |-> id] \notin client.inflight
          /\ client' = [client EXCEPT
                           !.server = @ \ {id},
                           !.inflight = @ \cup {[op |-> "delete", id |-> id]}]
    /\ ClientFrame

\* deleteExpense after its await: expenses = expenses.filter(...)
DeleteAnswered ==
    /\ \E m \in client.inflight :
          /\ m.op = "delete"
          /\ client' = [client EXCEPT
                           !.expenses = @ \ {m.id},
                           !.inflight = @ \ {m}]
    /\ ClientFrame

\* semanticSearch up to its await
SearchSent ==
    /\ client.searches < MaxSearches
    /\ client' = [client EXCEPT
                     !.searches = @ + 1,
                     !.inflight = @ \cup {[op |-> "search", id |-> client.searches + 1]}]
    /\ ClientFrame

\* semanticSearch after its await: results are some of the user's
\* expenses; with no result (or a failed search) nothing changes,
\* otherwise the list is replaced and a restore timer started on a copy
\* of the list as it was
SearchReturned ==
    /\ \E m \in client.inflight, results \in SUBSET client.server :
          /\ m.op = "search"
          /\ client' = IF results = {}
                       THEN [client EXCEPT !.inflight = @ \ {m}]
                       ELSE [client EXCEPT
                                !.timers = Append(@, client.expenses),
                                !.expenses = results,
                                !.inflight = @ \ {m}]
    /\ ClientFrame

\* the callback of the oldest restore timer (every timer has the same
\* delay, so the timers fire in the order they were started):
\* expenses = originalExpenses
TimerFired ==
    /\ client.timers # <<>>
    /\ client' = [client EXCEPT
                     !.expenses = Head(client.timers),
                     !.timers = Tail(@),
                     !.fired = @ + 1]
    /\ ClientFrame

NextClient ==
    \/ AddSent
    \/ AddAnswered
    \/ DeleteSent
    \/ DeleteAnswered
    \/ SearchSent
    \/ SearchReturned
    \/ TimerFired

SpecClient == InitClient /\ [][NextClient]_vars

\* C28: once every restore timer started by a semantic search has fired,
\* with no request unanswered, the client's expenses list is the user's full
\* list, with the expenses added and without those deleted in the meantime.
C28_RestoredToFullList ==
    (/\ client.fired > 0
     /\ client.timers = <<>>
     /\ client.inflight = {}) =>
        client.expenses = client.server
====
